---- MODULE Spec2Model ----
(***************************************************************************)
(* Reconciliation of IngressConfig custom objects by the ingress-operator. *)
(*                                                                         *)
(* Two shared host-cluster resources are edited: the tcp-services          *)
(* ConfigMap (a map from decimal load-balancer port to                     *)
(* "namespace/service:ingressPort") and the ingress-controller Service (a  *)
(* list of ports).  Strings are sequences of one-character strings, so    *)
(* that formatting (strconv.Itoa, fmt.Sprintf) is computed and not assumed.*)
(* A nil pointer / nil interface is the empty sequence Nil, a non-nil      *)
(* value x is <<x>>.                                                       *)
(***************************************************************************)
EXTENDS Integers, Sequences, FiniteSets, TLC

(***************************************************************************)
(* Bounds of the model.                                                    *)
(***************************************************************************)
\* Number of writes the independent owner of the ConfigMap/Service performs.
MaxExtWrites == 1

(***************************************************************************)
(* Program constants.                                                      *)
(***************************************************************************)
ResourceRetries == 3

Nil == << >>

Some(x) == << x >>

(***************************************************************************)
(* Formatting.                                                             *)
(***************************************************************************)
Digit(d) == CASE d = 0 -> "0" [] d = 1 -> "1" [] d = 2 -> "2" [] d = 3 -> "3"
              [] d = 4 -> "4" [] d = 5 -> "5" [] d = 6 -> "6" [] d = 7 -> "7"
              [] d = 8 -> "8" [] d = 9 -> "9"

RECURSIVE Itoa(_)
\* strconv.Itoa for the non-negative port numbers of the model.
Itoa(n) == IF n < 10 THEN << Digit(n) >> ELSE Itoa(n \div 10) \o << Digit(n % 10) >>

\* fmt.Sprintf(DataValueFormat, namespace, service, ingressPort), "%s/%s:%d".
DataValueFormat(namespace, service, ingressPort) ==
    namespace \o << "/" >> \o service \o << ":" >> \o Itoa(ingressPort)

\* fmt.Sprintf(PortNameFormat, protocol, ingressPort, id), "%s-%d-%s".
PortNameFormat(protocol, ingressPort, id) ==
    protocol \o << "-" >> \o Itoa(ingressPort) \o << "-" >> \o id

(***************************************************************************)
(* The custom objects.  Both target the same ConfigMap and Service.        *)
(***************************************************************************)
Objs == { "o1", "o2" }

\* A third object, with the first LB port of o1; it lives only where the
\* resyncs of a fixed set of objects are studied.
AllObjs == Objs \cup { "o3" }

CustomObject(o) ==
    IF o = "o1"
    THEN [ ID |-> << "a" >>, Namespace |-> << "n" >>, Service |-> << "w" >>,
           ProtocolPorts |-> << [ Protocol |-> << "h" >>, IngressPort |-> 5, LBPort |-> 9 ],
                                [ Protocol |-> << "s" >>, IngressPort |-> 6, LBPort |-> 10 ] >> ]
    ELSE IF o = "o3"
    THEN [ ID |-> << "c" >>, Namespace |-> << "p" >>, Service |-> << "w" >>,
           ProtocolPorts |-> << [ Protocol |-> << "h" >>, IngressPort |-> 5, LBPort |-> 9 ] >> ]
    ELSE [ ID |-> << "b" >>, Namespace |-> << "m" >>, Service |-> << "w" >>,
           ProtocolPorts |-> << [ Protocol |-> << "h" >>, IngressPort |-> 5, LBPort |-> 11 ] >> ]

ClusterID(customObject) == customObject.ID

ClusterNamespace(customObject) == customObject.Namespace

\* The type assertion on the object handed to a handler: Nil stands for the
\* wrong-type error.
toCustomObject(v) == IF v \in AllObjs THEN Some(CustomObject(v)) ELSE Nil

\* The masked wrongTypeError as a value.
wrongTypeError == "wrong type"

(***************************************************************************)
(* ConfigMap handler.                                                      *)
(***************************************************************************)
\* m[k] = v of a Go map: the key is added or its value overwritten.
MapSet(m, k, v) == [ x \in (DOMAIN m) \cup { k } |-> IF x = k THEN v ELSE m[x] ]

EmptyMap == [ x \in {} |-> << >> ]

inConfigMapData(data, k, v) == \E dk \in DOMAIN data : dk = k /\ data[dk] = v

RECURSIVE configmap_desiredLoop_ingressKey(_, _, _)
\* Variant: the key is the ingress port.
configmap_desiredLoop_ingressKey(customObject, i, dState) ==
    IF i > Len(customObject.ProtocolPorts) THEN dState
    ELSE LET p == customObject.ProtocolPorts[i]
             configMapKey == Itoa(p.IngressPort)
             configMapValue == DataValueFormat(customObject.Namespace,
                                               customObject.Service, p.IngressPort)
         IN configmap_desiredLoop_ingressKey(customObject, i + 1,
                                             MapSet(dState, configMapKey, configMapValue))

RECURSIVE configmap_desiredLoop(_, _, _)
configmap_desiredLoop(customObject, i, dState) ==
    IF i > Len(customObject.ProtocolPorts) THEN dState
    ELSE LET p == customObject.ProtocolPorts[i]
             configMapKey == Itoa(p.LBPort)
             configMapValue == DataValueFormat(customObject.Namespace,
                                               customObject.Service, p.IngressPort)
         IN configmap_desiredLoop(customObject, i + 1,
                                  MapSet(dState, configMapKey, configMapValue))

configmap_GetDesiredState(customObject) == configmap_desiredLoop(customObject, 1, EmptyMap)

\* Variant: the change is built from the desired pairs alone.
configmap_newUpdateChange_fromScratch(currentConfigMap, dState) ==
    [ currentConfigMap EXCEPT !.Data = dState ]

\* Variant: a key that is already in the data keeps its value.
configmap_newUpdateChange_keepValue(currentConfigMap, dState) ==
    [ currentConfigMap EXCEPT !.Data =
        [ k \in (DOMAIN currentConfigMap.Data) \cup (DOMAIN dState) |->
            IF k \in DOMAIN currentConfigMap.Data
            THEN currentConfigMap.Data[k] ELSE dState[k] ] ]

\* The fetched ConfigMap with every desired pair that is not already in it set.
\* The change is the fetched object whether or not a pair was set.
configmap_newUpdateChange(currentConfigMap, dState) ==
    [ currentConfigMap EXCEPT !.Data =
        [ k \in (DOMAIN currentConfigMap.Data) \cup (DOMAIN dState) |->
            IF k \in DOMAIN dState /\ ~inConfigMapData(currentConfigMap.Data, k, dState[k])
            THEN dState[k] ELSE currentConfigMap.Data[k] ] ]

\* Variant: the test of the filter is inverted.
configmap_newDeleteChange_inverted(currentConfigMap, dState) ==
    [ currentConfigMap EXCEPT !.Data =
        [ k \in { x \in DOMAIN currentConfigMap.Data :
                    inConfigMapData(dState, x, currentConfigMap.Data[x]) } |->
            currentConfigMap.Data[k] ] ]

\* The fetched ConfigMap without the pairs that are in the desired state.
configmap_newDeleteChange(currentConfigMap, dState) ==
    [ currentConfigMap EXCEPT !.Data =
        [ k \in { x \in DOMAIN currentConfigMap.Data :
                    ~inConfigMapData(dState, x, currentConfigMap.Data[x]) } |->
            currentConfigMap.Data[k] ] ]

\* Variant: the resource cancels itself without asking to keep the finalizer.
configmap_GetCurrentState_notKept(k8sConfigMap, isDeleted, podListNonEmpty) ==
    IF isDeleted /\ podListNonEmpty
    THEN [ state |-> Nil, canceled |-> TRUE, kept |-> FALSE ]
    ELSE [ state |-> Some(k8sConfigMap), canceled |-> FALSE, kept |-> FALSE ]

\* Get of the ConfigMap succeeded; on the deletion flow the pod list of the
\* tenant namespace decides whether the resource cancels itself.
configmap_GetCurrentState(k8sConfigMap, isDeleted, podListNonEmpty) ==
    IF isDeleted /\ podListNonEmpty
    THEN [ state |-> Nil, canceled |-> TRUE, kept |-> TRUE ]
    ELSE [ state |-> Some(k8sConfigMap), canceled |-> FALSE, kept |-> FALSE ]

(***************************************************************************)
(* Service handler.                                                        *)
(***************************************************************************)
\* ServicePort.String(): all five fields take part.
ServicePortString(p) == << p.Name, p.Protocol, p.Port, p.TargetPort, p.NodePort >>

inServicePorts(ports, p) ==
    \E i \in 1..Len(ports) : ServicePortString(ports[i]) = ServicePortString(p)

\* Index of the first port of the list with the given number, 0 when the
\* code returns servicePortNotFoundError.
getServicePortByPort(list, item) ==
    IF \E i \in 1..Len(list) : list[i].Port = item
    THEN CHOOSE i \in 1..Len(list) :
            list[i].Port = item /\ \A j \in 1..(i - 1) : list[j].Port # item
    ELSE 0

\* Variant: the ports come out in the reverse order of ProtocolPorts.
service_GetDesiredState_reversed(customObject) ==
    [ i \in 1..Len(customObject.ProtocolPorts) |->
        LET p == customObject.ProtocolPorts[Len(customObject.ProtocolPorts) + 1 - i]
        IN [ Name       |-> PortNameFormat(p.Protocol, p.IngressPort, customObject.ID),
             Protocol   |-> "TCP",
             Port       |-> p.LBPort,
             TargetPort |-> p.LBPort,
             NodePort   |-> p.LBPort ] ]

service_GetDesiredState(customObject) ==
    [ i \in 1..Len(customObject.ProtocolPorts) |->
        LET p == customObject.ProtocolPorts[i]
        IN [ Name       |-> PortNameFormat(p.Protocol, p.IngressPort, customObject.ID),
             Protocol   |-> "TCP",
             Port       |-> p.LBPort,
             TargetPort |-> p.LBPort,
             NodePort   |-> p.LBPort ] ]

RECURSIVE service_updateLoop_noHeal(_, _, _, _)
\* Variant: a port found under another name is left alone.
service_updateLoop_noHeal(ports, desiredPorts, i, count) ==
    IF i > Len(desiredPorts) THEN [ ports |-> ports, count |-> count ]
    ELSE LET desiredPort == desiredPorts[i]
             idx == getServicePortByPort(ports, desiredPort.Port)
         IN IF idx = 0
            THEN service_updateLoop_noHeal(Append(ports, desiredPort), desiredPorts,
                                           i + 1, count + 1)
            ELSE service_updateLoop_noHeal(ports, desiredPorts, i + 1, count)

RECURSIVE service_updateLoop_prepends(_, _, _, _)
\* Variant: a missing port is put in front of the list.
service_updateLoop_prepends(ports, desiredPorts, i, count) ==
    IF i > Len(desiredPorts) THEN [ ports |-> ports, count |-> count ]
    ELSE LET desiredPort == desiredPorts[i]
             idx == getServicePortByPort(ports, desiredPort.Port)
         IN IF idx = 0
            THEN service_updateLoop_prepends(<< desiredPort >> \o ports, desiredPorts,
                                             i + 1, count + 1)
            ELSE IF ports[idx].Name # desiredPort.Name
                 THEN service_updateLoop_prepends([ ports EXCEPT ![idx] = desiredPort ],
                                                  desiredPorts, i + 1, count + 1)
                 ELSE service_updateLoop_prepends(ports, desiredPorts, i + 1, count)

RECURSIVE service_updateLoop(_, _, _, _)
\* The loop over the desired ports: ports is currentService.Spec.Ports as
\* mutated so far, count the number of mutations.
service_updateLoop(ports, desiredPorts, i, count) ==
    IF i > Len(desiredPorts) THEN [ ports |-> ports, count |-> count ]
    ELSE LET desiredPort == desiredPorts[i]
             idx == getServicePortByPort(ports, desiredPort.Port)
         IN IF idx = 0
            THEN service_updateLoop(Append(ports, desiredPort), desiredPorts, i + 1, count + 1)
            ELSE IF ports[idx].Name # desiredPort.Name
                 THEN service_updateLoop([ ports EXCEPT ![idx] = desiredPort ],
                                         desiredPorts, i + 1, count + 1)
                 ELSE service_updateLoop(ports, desiredPorts, i + 1, count)

\* Variant: a single mutation is not reported as a change.
service_newUpdateChange_offByOne(currentService, desiredPorts) ==
    LET r == service_updateLoop(currentService.Ports, desiredPorts, 1, 0)
    IN IF r.count > 1 THEN Some([ currentService EXCEPT !.Ports = r.ports ]) ELSE Nil

\* Nil when nothing was mutated, else the fetched Service with the mutations.
service_newUpdateChange(currentService, desiredPorts) ==
    LET r == service_updateLoop(currentService.Ports, desiredPorts, 1, 0)
    IN IF r.count > 0 THEN Some([ currentService EXCEPT !.Ports = r.ports ]) ELSE Nil

\* Variant: the change is a new Service object that holds the ports.
service_newDeleteChange_newObject(currentService, dState) ==
    [ Ports |-> SelectSeq(currentService.Ports, LAMBDA p : ~inServicePorts(dState, p)),
      ResourceVersion |-> 0 ]

\* Variant: the test of the filter is inverted.
service_newDeleteChange_inverted(currentService, dState) ==
    [ currentService EXCEPT !.Ports =
        SelectSeq(currentService.Ports, LAMBDA p : inServicePorts(dState, p)) ]

\* The fetched Service without the ports that are in the desired state.
service_newDeleteChange(currentService, dState) ==
    [ currentService EXCEPT !.Ports =
        SelectSeq(currentService.Ports, LAMBDA p : ~inServicePorts(dState, p)) ]

\* Variant: the pod list is not looked at.
service_GetCurrentState_noGuard(k8sService, isDeleted, podListNonEmpty) ==
    [ state |-> Some(k8sService), canceled |-> FALSE, kept |-> FALSE ]

service_GetCurrentState(k8sService, isDeleted, podListNonEmpty) ==
    IF isDeleted /\ podListNonEmpty
    THEN [ state |-> Nil, canceled |-> TRUE, kept |-> TRUE ]
    ELSE [ state |-> Some(k8sService), canceled |-> FALSE, kept |-> FALSE ]

(***************************************************************************)
(* The API server: the live ConfigMap and Service, the custom objects and  *)
(* the pods of the tenant namespaces.                                      *)
(***************************************************************************)
Threads == { "t1", "t2" }

VARIABLES
    configMap,   \* the live ConfigMap: [Data, ResourceVersion]
    service,     \* the live Service: [Ports, ResourceVersion]
    objects,     \* per custom object: [status, finalizer]
    pods,        \* the objects whose tenant namespace lists at least one pod
    mutex,       \* "free" or the thread that holds Service.mutex
    th,          \* per informer callback goroutine: position and locals
    lastOK,      \* object of the last completed reconcile when that was an
                 \* undisturbed successful upsert running its handlers, else "none"
    extWrites,   \* number of writes by the independent owner so far
    boot,        \* Boot: [crd, pc, err, informer], crd being the API server's
                 \* view of the custom-resource definition
    unit         \* a handler function applied on its own (its arguments and
                 \* results) or the run of the first operator (its position
                 \* and locals); Nil while the handlers run under the core

vars == << configMap, service, objects, pods, mutex, th, lastOK, extWrites, boot, unit >>

Port(name, protocol, port, targetPort, nodePort) ==
    [ Name |-> name, Protocol |-> protocol, Port |-> port,
      TargetPort |-> targetPort, NodePort |-> nodePort ]

\* Contents the independent owner of the ConfigMap may have provisioned:
\* nothing; the first pair of o1 next to the pair of another tenant; the first
\* key of o1 with a value that is not o1's.
DataChoices ==
    { EmptyMap,
      (Itoa(9) :> DataValueFormat(<< "n" >>, << "w" >>, 5))
          @@ (Itoa(11) :> DataValueFormat(<< "m" >>, << "w" >>, 5)),
      Itoa(9) :> << "x" >> }

\* Port lists the independent owner of the Service may have provisioned:
\* nothing; a foreign port and a port with o1's first number under another
\* name; o1's first name and number with another node port; o1's first port
\* and a UDP port with the same number.
PortChoices ==
    { << >>,
      << Port(<< "x" >>, "TCP", 12, 12, 12),
         Port(<< "h", "-", "5", "-", "z" >>, "TCP", 9, 9, 9) >>,
      << Port(<< "h", "-", "5", "-", "a" >>, "TCP", 9, 9, 13) >>,
      << Port(<< "h", "-", "5", "-", "a" >>, "TCP", 9, 9, 9),
         Port(<< "u" >>, "UDP", 9, 9, 9) >> }

\* Validation of a Service by the API server: port names are unique and no
\* two ports share number and protocol.
ValidService(ports) ==
    \A i, j \in 1..Len(ports) :
        i # j => /\ ports[i].Name # ports[j].Name
                 /\ << ports[i].Port, ports[i].Protocol >> # << ports[j].Port, ports[j].Protocol >>

\* Variant: the update is applied whatever resource version the object carries.
ConfigMapUpdateAccepted_unconditional(live, obj) == TRUE

\* ConfigMaps(namespace).Update(obj): optimistic concurrency on the resource
\* version of the object sent.
ConfigMapUpdateAccepted(live, obj) == obj.ResourceVersion = live.ResourceVersion

ConfigMapUpdated(live, obj) ==
    IF obj.Data = live.Data THEN live
    ELSE [ Data |-> obj.Data, ResourceVersion |-> live.ResourceVersion + 1 ]

\* Services(namespace).Update(obj).
ServiceUpdateAccepted(live, obj) ==
    obj.ResourceVersion = live.ResourceVersion /\ ValidService(obj.Ports)

ServiceUpdated(live, obj) ==
    IF obj.Ports = live.Ports THEN live
    ELSE [ Ports |-> obj.Ports, ResourceVersion |-> live.ResourceVersion + 1 ]

IdleThread ==
    [ pc |-> "idle", obj |-> "none", deleted |-> FALSE,
      res |-> 0, cur |-> Nil, des |-> Nil, change |-> Nil,
      canceled |-> FALSE, kept |-> FALSE, failed |-> FALSE, short |-> FALSE,
      attempts |-> 0, cmCalls |-> 0, svcCalls |-> 0,
      extCM |-> FALSE, extSvc |-> FALSE, follows |-> FALSE, read |-> Nil,
      sawPods |-> 0, err |-> "none" ]

Init ==
    /\ \E d \in DataChoices : configMap = [ Data |-> d, ResourceVersion |-> 1 ]
    /\ \E ps \in PortChoices : service = [ Ports |-> ps, ResourceVersion |-> 1 ]
    /\ objects = [ o \in Objs |-> IF o = "o1"
                                  THEN [ status |-> "live", finalizer |-> FALSE ]
                                  ELSE [ status |-> "gone", finalizer |-> FALSE ] ]
    /\ pods \in SUBSET { "o1" }
    /\ mutex = "free"
    /\ th = [ t \in Threads |-> IdleThread ]
    /\ lastOK = "none"
    /\ extWrites = 0
    /\ \E c \in { "absent", "present" } :
          boot = [ crd |-> c, pc |-> "new", err |-> "none", informer |-> FALSE ]
    /\ unit = Nil

(***************************************************************************)
(* The environment.                                                        *)
(***************************************************************************)
\* A write by another party is seen by every reconcile that is running.
Disturb(cmWritten, svcWritten) ==
    [ t \in Threads |->
        IF th[t].pc \in { "idle", "lock" } THEN th[t]
        ELSE [ th[t] EXCEPT !.extCM = @ \/ cmWritten, !.extSvc = @ \/ svcWritten ] ]

\* The independent owner of the ConfigMap replaces its data.
ExtWriteConfigMap ==
    /\ extWrites < MaxExtWrites
    /\ \E d \in DataChoices :
          /\ d # configMap.Data
          /\ configMap' = [ Data |-> d, ResourceVersion |-> configMap.ResourceVersion + 1 ]
    /\ extWrites' = extWrites + 1
    /\ th' = Disturb(TRUE, FALSE)
    /\ lastOK' = "none"
    /\ UNCHANGED << service, objects, pods, mutex, boot, unit >>

\* The independent owner of the Service replaces its ports.
ExtWriteService ==
    /\ extWrites < MaxExtWrites
    /\ \E ps \in PortChoices :
          /\ ps # service.Ports
          /\ service' = [ Ports |-> ps, ResourceVersion |-> service.ResourceVersion + 1 ]
    /\ extWrites' = extWrites + 1
    /\ th' = Disturb(FALSE, TRUE)
    /\ lastOK' = "none"
    /\ UNCHANGED << configMap, objects, pods, mutex, boot, unit >>

\* Pods of a tenant namespace appear or are all removed.  The pod list is
\* read on the deletion flow only, so changes before the deletion are left out.
PodsChange ==
    /\ \E o \in Objs : objects[o].status = "deleting" /\ pods' = IF o \in pods THEN pods \ { o } ELSE pods \cup { o }
    /\ UNCHANGED << configMap, service, objects, mutex, th, lastOK, extWrites, boot, unit >>

\* A user deletes a custom object: with a finalizer on it the API server only
\* sets the deletion timestamp, without one the object is removed at once.
UserDelete ==
    /\ \E o \in Objs :
          /\ objects[o].status = "live"
          /\ objects' = [ objects EXCEPT ![o].status =
                            IF objects[o].finalizer THEN "deleting" ELSE "gone" ]
    /\ UNCHANGED << configMap, service, pods, mutex, th, lastOK, extWrites, boot, unit >>

(***************************************************************************)
(* Boot: the custom-resource definition, then the informer.                *)
(***************************************************************************)
\* tpr.CreateAndWait(): an already-exists error when the definition is there,
\* nil when it was created and reported established, another error when the
\* creation failed or the definition did not become established in time.
CreateAndWait ==
    /\ boot.pc = "new"
    /\ \/ /\ boot.crd = "present"
          /\ boot' = [ boot EXCEPT !.pc = "created", !.err = "alreadyExists" ]
       \/ /\ boot.crd = "absent"
          /\ boot' = [ boot EXCEPT !.pc = "created", !.err = "nil", !.crd = "present" ]
       \/ /\ boot.crd = "absent"
          /\ boot' = [ boot EXCEPT !.pc = "created", !.err = "error" ]
    /\ UNCHANGED << configMap, service, objects, pods, mutex, th, lastOK, extWrites, unit >>

\* Variant: the error of CreateAndWait is only logged.
BootGoesOn_always(err) == TRUE

\* Boot goes on to the informer on an already-exists error and on nil, and
\* returns on any other error.
BootGoesOn(err) == err = "alreadyExists" \/ err = "nil"

\* The rest of Boot: the informer is created and run, or Boot returns.
StartInformer ==
    /\ boot.pc = "created"
    /\ boot' = [ boot EXCEPT !.pc = "returned", !.err = "none",
                             !.informer = BootGoesOn(boot.err) ]
    /\ UNCHANGED << configMap, service, objects, pods, mutex, th, lastOK, extWrites, unit >>

(***************************************************************************)
(* The informer callbacks and the reconcile they run.                      *)
(***************************************************************************)
\* The informer invokes a callback with the object as it is cached now.
Emit(t) ==
    /\ boot.informer
    /\ th[t].pc = "idle"
    /\ \E o \in Objs :
          /\ objects[o].status # "gone"
          /\ th' = [ th EXCEPT ![t] =
                       [ IdleThread EXCEPT !.pc = "lock", !.obj = o,
                                           !.deleted = (objects[o].status = "deleting") ] ]
    /\ UNCHANGED << configMap, service, objects, pods, mutex, lastOK, extWrites, boot, unit >>

\* Variant: the callback does not wait for the mutex.
MutexLock_noWait(m) == TRUE

\* sync.Mutex.Lock returns only when no other goroutine holds the mutex.
MutexLock(m) == m = "free"

\* s.mutex.Lock() at the head of addFunc / deleteFunc.
Lock(t) ==
    /\ th[t].pc = "lock"
    /\ MutexLock(mutex)
    /\ mutex' = t
    /\ th' = [ th EXCEPT ![t].pc = "start", ![t].follows = (lastOK = th[t].obj) ]
    /\ UNCHANGED << configMap, service, objects, pods, lastOK, extWrites, boot, unit >>

\* Variant: the wrapper allows one more attempt.
Failed_oneMore(t, self) ==
    IF self.attempts >= ResourceRetries
    THEN [ self EXCEPT !.pc = "done", !.failed = TRUE, !.attempts = 0 ]
    ELSE [ self EXCEPT !.attempts = @ + 1 ]

\* The error of an operation: the retry wrapper runs it again until
\* ResourceRetries attempts have failed, then the reconcile ends with it.
Failed(t, self) ==
    IF self.attempts + 1 >= ResourceRetries
    THEN [ self EXCEPT !.pc = "done", !.failed = TRUE, !.attempts = 0 ]
    ELSE [ self EXCEPT !.attempts = @ + 1 ]

\* Variant: the handlers run in the reconcile that adds the finalizer.
EnsureFinalizer_noShortCircuit(t) ==
    /\ th[t].pc = "start"
    /\ objects' = [ objects EXCEPT ![th[t].obj].finalizer = (objects[th[t].obj].status # "gone") ]
    /\ th' = [ th EXCEPT ![t].pc = "current", ![t].res = 1 ]
    /\ UNCHANGED << configMap, service, pods, mutex, lastOK, extWrites, boot, unit >>

\* The core of an upsert reconcile adds the cleanup finalizer to an object
\* that lacks it and returns; otherwise the handlers run.  What is not a
\* custom object is handed to the handlers as it is.
EnsureFinalizer(t) ==
    /\ th[t].pc = "start"
    /\ LET o == th[t].obj
       IN IF o \in Objs /\ ~th[t].deleted /\ ~objects[o].finalizer
          THEN IF objects[o].status = "gone"
               THEN /\ th' = [ th EXCEPT ![t].pc = "done", ![t].failed = TRUE ]
                    /\ UNCHANGED objects
               ELSE /\ objects' = [ objects EXCEPT ![o].finalizer = TRUE ]
                    /\ th' = [ th EXCEPT ![t].pc = "done", ![t].short = TRUE ]
          ELSE /\ th' = [ th EXCEPT ![t].pc = "current", ![t].res = 1 ]
               /\ UNCHANGED objects
    /\ UNCHANGED << configMap, service, pods, mutex, lastOK, extWrites, boot, unit >>

\* Variant: the wrong-type error is retried like any other error.
WrongType_retried(t, self) == Failed(t, self)

\* The wrong-type error is not retried: the reconcile ends with it.
WrongType(t, self) ==
    [ self EXCEPT !.pc = "done", !.failed = TRUE, !.err = "wrongType" ]

\* GetCurrentState of the resource in turn: the type assertion, the Get, and
\* on the deletion flow the pod list of the tenant namespace.  When the type
\* assertion fails the masked error is returned as the state, with a nil
\* error.
GetCurrentState(t) ==
    /\ th[t].pc = "current"
    /\ \/ /\ toCustomObject(th[t].obj) = Nil
          /\ th' = [ th EXCEPT ![t].cur = Some(wrongTypeError), ![t].attempts = 0,
                               ![t].pc = "desired" ]
       \/ /\ toCustomObject(th[t].obj) # Nil
          /\ th' = [ th EXCEPT ![t] = Failed(t, th[t]) ]
       \/ /\ toCustomObject(th[t].obj) # Nil
          /\ LET r == IF th[t].res = 1
                   THEN configmap_GetCurrentState(configMap, th[t].deleted, th[t].obj \in pods)
                   ELSE service_GetCurrentState(service, th[t].deleted, th[t].obj \in pods)
             IN th' = [ th EXCEPT ![t].cur = r.state,
                                  ![t].read = IF th[t].res = 2 THEN r.state ELSE @,
                                  ![t].sawPods = IF th[t].deleted /\ th[t].obj \in pods /\ @ = 0
                                                 THEN th[t].res ELSE @,
                                  ![t].canceled = r.canceled,
                                  ![t].kept = r.kept,
                                  ![t].attempts = 0,
                                  ![t].pc = IF r.canceled THEN "end" ELSE "desired" ]
    /\ UNCHANGED << configMap, service, objects, pods, mutex, lastOK, extWrites, boot, unit >>

\* GetDesiredState: the type assertion (its error, too, is returned as the
\* state), then the desired pairs or ports.
GetDesiredState(t) ==
    /\ th[t].pc = "desired"
    /\ th' = [ th EXCEPT ![t].des =
                   IF toCustomObject(th[t].obj) = Nil THEN Some(wrongTypeError)
                   ELSE IF th[t].res = 1
                   THEN Some(configmap_GetDesiredState(CustomObject(th[t].obj)))
                   ELSE Some(service_GetDesiredState(CustomObject(th[t].obj))),
                         ![t].pc = "patch" ]
    /\ UNCHANGED << configMap, service, objects, pods, mutex, lastOK, extWrites, boot, unit >>

\* NewUpdatePatch on an upsert, NewDeletePatch on a deletion.  The change is
\* built in the fetched object itself; when a type assertion of the diff
\* fails the masked error becomes the change.
NewPatch(t) ==
    /\ th[t].pc = "patch"
    /\ LET c == IF toCustomObject(th[t].obj) = Nil THEN Some(wrongTypeError)
                ELSE IF th[t].deleted
                THEN IF th[t].res = 1
                     THEN Some(configmap_newDeleteChange(th[t].cur[1], th[t].des[1]))
                     ELSE Some(service_newDeleteChange(th[t].cur[1], th[t].des[1]))
                ELSE IF th[t].res = 1
                     THEN Some(configmap_newUpdateChange(th[t].cur[1], th[t].des[1]))
                     ELSE service_newUpdateChange(th[t].cur[1], th[t].des[1])
       IN th' = [ th EXCEPT ![t].change = c,
                            ![t].cur = IF c # Nil THEN c ELSE @,
                            ![t].pc = IF th[t].deleted THEN "delete" ELSE "create" ]
    /\ UNCHANGED << configMap, service, objects, pods, mutex, lastOK, extWrites, boot, unit >>

\* Variant: the create step writes the desired pairs as a new ConfigMap.
ApplyCreateChange_creates(t) ==
    /\ th[t].pc = "create"
    /\ th' = [ th EXCEPT ![t].pc = "update" ]
    /\ configMap' = IF th[t].res = 1 /\ toCustomObject(th[t].obj) # Nil
                    THEN [ Data |-> th[t].des[1],
                           ResourceVersion |-> configMap.ResourceVersion + 1 ]
                    ELSE configMap
    /\ UNCHANGED << service, objects, pods, mutex, lastOK, extWrites, boot, unit >>

\* ApplyCreateChange is a no-op.
ApplyCreateChange(t) ==
    /\ th[t].pc = "create"
    /\ th' = [ th EXCEPT ![t].pc = "update" ]
    /\ UNCHANGED << configMap, service, objects, pods, mutex, lastOK, extWrites, boot, unit >>

\* Variant: after the Service resource the ConfigMap resource runs again.
NextResource_backToFirst(self) ==
    [ self EXCEPT !.res = IF self.res = 1 THEN 2 ELSE 1, !.pc = "current",
                  !.attempts = 0, !.cur = Nil, !.des = Nil, !.change = Nil ]

\* The resource is done: the next resource of the list, or the end.
NextResource(self) ==
    IF self.res = 1
    THEN [ self EXCEPT !.res = 2, !.pc = "current", !.attempts = 0,
                       !.cur = Nil, !.des = Nil, !.change = Nil ]
    ELSE [ self EXCEPT !.pc = "end", !.attempts = 0 ]

\* ApplyUpdateChange / ApplyDeleteChange: the type assertions, whose error is
\* returned as the error, then a non-nil change is sent with Update.
ApplyChange(t) ==
    /\ th[t].pc \in { "update", "delete" }
    /\ IF toCustomObject(th[t].obj) = Nil
       THEN /\ th' = [ th EXCEPT ![t] = WrongType(t, th[t]) ]
            /\ UNCHANGED << configMap, service >>
       ELSE IF th[t].change = Nil
       THEN /\ th' = [ th EXCEPT ![t] = NextResource(th[t]) ]
            /\ UNCHANGED << configMap, service >>
       ELSE LET obj == th[t].change[1]
                called == IF th[t].res = 1
                          THEN [ th[t] EXCEPT !.cmCalls = @ + 1 ]
                          ELSE [ th[t] EXCEPT !.svcCalls = @ + 1 ]
            IN \/ /\ th[t].res = 1
                  /\ ConfigMapUpdateAccepted(configMap, obj)
                  /\ configMap' = ConfigMapUpdated(configMap, obj)
                  /\ th' = [ th EXCEPT ![t] = NextResource(called) ]
                  /\ UNCHANGED service
               \/ /\ th[t].res = 2
                  /\ ServiceUpdateAccepted(service, obj)
                  /\ service' = ServiceUpdated(service, obj)
                  /\ th' = [ th EXCEPT ![t] = NextResource(called) ]
                  /\ UNCHANGED configMap
               \/ /\ th' = [ th EXCEPT ![t] = Failed(t, called) ]
                  /\ UNCHANGED << configMap, service >>
    /\ UNCHANGED << objects, pods, mutex, lastOK, extWrites, boot, unit >>

\* The core of a deletion reconcile removes the cleanup finalizer when no
\* handler failed and none asked to keep it; the API server then completes
\* the deletion.
RemoveFinalizer(t) ==
    /\ th[t].pc = "end"
    /\ LET o == th[t].obj
       IN objects' = IF th[t].deleted /\ ~th[t].kept
                     THEN [ objects EXCEPT ![o] = [ status |-> "gone", finalizer |-> FALSE ] ]
                     ELSE objects
    /\ th' = [ th EXCEPT ![t].pc = "done" ]
    /\ UNCHANGED << configMap, service, pods, mutex, lastOK, extWrites, boot, unit >>

\* Variant: a callback whose reconcile failed never returns.
Unlock_stuckOnFailure(t) ==
    /\ th[t].pc = "done"
    /\ ~th[t].failed
    /\ mutex' = "free"
    /\ lastOK' = "none"
    /\ th' = [ th EXCEPT ![t] = IdleThread ]
    /\ UNCHANGED << configMap, service, objects, pods, extWrites, boot, unit >>

\* defer s.mutex.Unlock(): the callback returns.
Unlock(t) ==
    /\ th[t].pc = "done"
    /\ mutex' = "free"
    /\ lastOK' = IF /\ ~th[t].failed /\ ~th[t].canceled /\ ~th[t].short /\ ~th[t].deleted
                    /\ ~th[t].extCM /\ ~th[t].extSvc
                 THEN th[t].obj ELSE "none"
    /\ th' = [ th EXCEPT ![t] = IdleThread ]
    /\ UNCHANGED << configMap, service, objects, pods, extWrites, boot, unit >>

\* The steps of the callback run by goroutine t.
Callback(t) ==
    \/ Emit(t)
    \/ Lock(t)
    \/ EnsureFinalizer(t)
    \/ GetCurrentState(t)
    \/ GetDesiredState(t)
    \/ NewPatch(t)
    \/ ApplyCreateChange(t)
    \/ ApplyChange(t)
    \/ RemoveFinalizer(t)
    \/ Unlock(t)

\* The informer delivers its events from one goroutine, one callback after
\* the other, while other parties write to the shared resources.
Next ==
    \/ CreateAndWait
    \/ StartInformer
    \/ ExtWriteConfigMap
    \/ ExtWriteService
    \/ PodsChange
    \/ UserDelete
    \/ Callback("t1")

Spec == Init /\ [][Next]_vars

TypeOK ==
    /\ mutex \in { "free" } \cup Threads
    /\ extWrites \in 0..MaxExtWrites

(***************************************************************************)
(* Vocabulary of the properties.                                           *)
(***************************************************************************)
Running(t) == th[t].pc \notin { "idle", "lock" }

\* The reconcile of t has ended, every handler ran and succeeded.
Succeeded(t) ==
    th[t].pc = "done" /\ ~th[t].failed /\ ~th[t].canceled /\ ~th[t].short

UpsertSucceeded(t) == Succeeded(t) /\ ~th[t].deleted

DeleteSucceeded(t) == Succeeded(t) /\ th[t].deleted

ProtocolPortsOf(t) == CustomObject(th[t].obj).ProtocolPorts

\* The decimal LBPorts of an object.
OwnedKeys(o) ==
    { Itoa(CustomObject(o).ProtocolPorts[i].LBPort) :
        i \in 1..Len(CustomObject(o).ProtocolPorts) }

\* A step taken by the reconcile of t itself.
StepOf(t) ==
    /\ th'[t] # th[t]
    /\ Running(t)
    /\ th'[t].extCM = th[t].extCM
    /\ th'[t].extSvc = th[t].extSvc

(***************************************************************************)
(* C1: when an upsert reconcile of o has succeeded and no other party      *)
(* wrote to the ConfigMap meanwhile, the ConfigMap maps the decimal string *)
(* of every LBPort of o to "Namespace/Service:IngressPort".                *)
(***************************************************************************)
C1_DesiredPairsPresent ==
    \A t \in Threads :
        UpsertSucceeded(t) /\ ~th[t].extCM =>
            \A i \in 1..Len(ProtocolPortsOf(t)) :
                LET p == ProtocolPortsOf(t)[i]
                    o == CustomObject(th[t].obj)
                IN /\ Itoa(p.LBPort) \in DOMAIN configMap.Data
                   /\ configMap.Data[Itoa(p.LBPort)] =
                         o.Namespace \o << "/" >> \o o.Service \o << ":" >> \o Itoa(p.IngressPort)

\* An upsert reconcile of o1 has succeeded after writing the ConfigMap, which
\* now holds "10" -> "n/w:6".
C1_Witness ==
    \E t \in Threads :
        /\ UpsertSucceeded(t) /\ ~th[t].extCM /\ th[t].obj = "o1"
        /\ th[t].cmCalls > 0
        /\ << "1", "0" >> \in DOMAIN configMap.Data
        /\ configMap.Data[<< "1", "0" >>] = << "n", "/", "w", ":", "6" >>

\* The canonical service port name of a protocol port of an object.
CanonicalName(customObject, p) ==
    p.Protocol \o << "-" >> \o Itoa(p.IngressPort) \o << "-" >> \o customObject.ID

OwnedNames(o) ==
    { CanonicalName(CustomObject(o), CustomObject(o).ProtocolPorts[i]) :
        i \in 1..Len(CustomObject(o).ProtocolPorts) }

OwnedNumbers(o) ==
    { CustomObject(o).ProtocolPorts[i].LBPort : i \in 1..Len(CustomObject(o).ProtocolPorts) }

PortsNamed(ports, name) == { j \in 1..Len(ports) : ports[j].Name = name }

\* The ports of the Service as the reconcile of t read them.
PortsRead(t) == th[t].read[1].Ports

(***************************************************************************)
(* C2, as claimed: when an upsert reconcile of o has succeeded (and no     *)
(* other party wrote to the Service meanwhile), whatever the Service held  *)
(* before, for every protocol port p of o exactly one port is named        *)
(* "Protocol-IngressPort-ID" and it has Protocol TCP and                   *)
(* Port = TargetPort = NodePort = p.LBPort.                                *)
(***************************************************************************)
C2_Original ==
    \A t \in Threads :
        UpsertSucceeded(t) /\ ~th[t].extSvc =>
            \A i \in 1..Len(ProtocolPortsOf(t)) :
                LET p == ProtocolPortsOf(t)[i]
                    named == PortsNamed(service.Ports, CanonicalName(CustomObject(th[t].obj), p))
                IN /\ Cardinality(named) = 1
                   /\ \A j \in named :
                         /\ service.Ports[j].Protocol = "TCP"
                         /\ service.Ports[j].Port = p.LBPort
                         /\ service.Ports[j].TargetPort = p.LBPort
                         /\ service.Ports[j].NodePort = p.LBPort

(***************************************************************************)
(* C2, amended: exactly one port carries the canonical name and it has     *)
(* Port = p.LBPort; it has Protocol TCP and TargetPort = NodePort =        *)
(* p.LBPort too, unless a port with that name and number was in the        *)
(* Service when the reconcile read it: that port is left as it was.        *)
(***************************************************************************)
C2_Amended ==
    \A t \in Threads :
        UpsertSucceeded(t) /\ ~th[t].extSvc =>
            \A i \in 1..Len(ProtocolPortsOf(t)) :
                LET p == ProtocolPortsOf(t)[i]
                    named == PortsNamed(service.Ports, CanonicalName(CustomObject(th[t].obj), p))
                IN /\ Cardinality(named) = 1
                   /\ \A j \in named :
                         /\ service.Ports[j].Port = p.LBPort
                         /\ \/ /\ service.Ports[j].Protocol = "TCP"
                               /\ service.Ports[j].TargetPort = p.LBPort
                               /\ service.Ports[j].NodePort = p.LBPort
                            \/ \E k \in 1..Len(PortsRead(t)) : PortsRead(t)[k] = service.Ports[j]

\* An upsert reconcile of o1 has succeeded after updating a Service that held
\* none of o1's names, and "s-6-a" is now a TCP port 10/10/10.
C2_Witness ==
    \E t \in Threads :
        /\ UpsertSucceeded(t) /\ ~th[t].extSvc /\ th[t].obj = "o1"
        /\ th[t].svcCalls > 0
        /\ \A k \in 1..Len(PortsRead(t)) : PortsRead(t)[k].Name \notin OwnedNames("o1")
        /\ \E j \in 1..Len(service.Ports) :
              service.Ports[j] = Port(<< "s", "-", "6", "-", "a" >>, "TCP", 10, 10, 10)

(***************************************************************************)
(* C3: no step of a reconcile of o (upsert or delete) removes, adds or     *)
(* changes a ConfigMap entry whose key is not the decimal LBPort of one of *)
(* o's protocol ports.                                                     *)
(***************************************************************************)
C3_UnownedKeysUnchanged ==
    [][ \A t \in Threads :
          StepOf(t) =>
            \A k \in (DOMAIN configMap.Data) \cup (DOMAIN configMap'.Data) :
                k \notin OwnedKeys(th[t].obj) =>
                    /\ k \in DOMAIN configMap.Data
                    /\ k \in DOMAIN configMap'.Data
                    /\ configMap'.Data[k] = configMap.Data[k] ]_vars

\* A reconcile of o1 has had an update of the ConfigMap accepted while the
\* ConfigMap holds the key "11" of another tenant.
C3_Witness ==
    \E t \in Threads :
        /\ th[t].obj = "o1" /\ th[t].res = 2 /\ th[t].cmCalls > 0 /\ ~th[t].extCM
        /\ << "1", "1" >> \in DOMAIN configMap.Data
        /\ << "1", "0" >> \in DOMAIN configMap.Data

(***************************************************************************)
(* C4, as claimed: no step of a reconcile of o (upsert or delete) removes, *)
(* renames or renumbers a Service port whose name is not a canonical name  *)
(* of o: the port is still in the list, as it was.                         *)
(***************************************************************************)
C4_Original ==
    [][ \A t \in Threads :
          StepOf(t) =>
            \A j \in 1..Len(service.Ports) :
                service.Ports[j].Name \notin OwnedNames(th[t].obj) =>
                    \E k \in 1..Len(service'.Ports) : service'.Ports[k] = service.Ports[j] ]_vars

(***************************************************************************)
(* C4, amended: such a port is left as it was, except that an upsert       *)
(* reconcile overwrites with the desired port the first port of the list   *)
(* that carries the LBPort number of one of o's protocol ports under       *)
(* another name.                                                           *)
(***************************************************************************)
C4_Amended ==
    [][ \A t \in Threads :
          StepOf(t) =>
            \A j \in 1..Len(service.Ports) :
                service.Ports[j].Name \notin OwnedNames(th[t].obj) =>
                    \/ \E k \in 1..Len(service'.Ports) : service'.Ports[k] = service.Ports[j]
                    \/ /\ ~th[t].deleted
                       /\ service.Ports[j].Port \in OwnedNumbers(th[t].obj)
                       /\ \A i \in 1..(j - 1) : service.Ports[i].Port # service.Ports[j].Port
                       /\ j <= Len(service'.Ports)
                       /\ service'.Ports[j].Name \in OwnedNames(th[t].obj)
                       /\ service'.Ports[j].Port = service.Ports[j].Port ]_vars

\* A reconcile of o1 has had an update of the Service accepted, the foreign
\* port "x" and the UDP port "u" it read being still there.
C4_Witness ==
    \E t \in Threads :
        /\ th[t].obj = "o1" /\ th[t].pc = "end" /\ th[t].svcCalls > 0 /\ ~th[t].extSvc
        /\ \E k \in 1..Len(PortsRead(t)) : PortsRead(t)[k].Name \in { << "x" >>, << "u" >> }
        /\ \E j \in 1..Len(service.Ports) : service.Ports[j].Name \in { << "x" >>, << "u" >> }

\* The desired pairs and ports of an object, as the specification words them.
CanonicalValue(customObject, p) ==
    customObject.Namespace \o << "/" >> \o customObject.Service \o << ":" >> \o Itoa(p.IngressPort)

CanonicalPort(customObject, p) ==
    Port(CanonicalName(customObject, p), "TCP", p.LBPort, p.LBPort, p.LBPort)

(***************************************************************************)
(* C5, as claimed: when a delete reconcile of o has succeeded with no      *)
(* handler cancelled (and no other party wrote meanwhile), the ConfigMap   *)
(* holds no key that is the decimal LBPort of one of o's protocol ports    *)
(* and the Service no port with a canonical name of o, whatever value or   *)
(* numbers they had.                                                       *)
(***************************************************************************)
C5_Original ==
    \A t \in Threads :
        DeleteSucceeded(t) /\ ~th[t].extCM /\ ~th[t].extSvc =>
            /\ \A k \in DOMAIN configMap.Data : k \notin OwnedKeys(th[t].obj)
            /\ \A j \in 1..Len(service.Ports) : service.Ports[j].Name \notin OwnedNames(th[t].obj)

(***************************************************************************)
(* C5, amended: the ConfigMap then holds no pair equal to a desired pair   *)
(* of o and the Service no port equal to a desired port of o in name,      *)
(* protocol, port, target port and node port.  (A key of o with another    *)
(* value and a port named like o's with other numbers stay.)               *)
(***************************************************************************)
C5_Amended ==
    \A t \in Threads :
        DeleteSucceeded(t) /\ ~th[t].extCM /\ ~th[t].extSvc =>
            \A i \in 1..Len(ProtocolPortsOf(t)) :
                LET p == ProtocolPortsOf(t)[i]
                    o == CustomObject(th[t].obj)
                IN /\ ~ ( /\ Itoa(p.LBPort) \in DOMAIN configMap.Data
                          /\ configMap.Data[Itoa(p.LBPort)] = CanonicalValue(o, p) )
                   /\ \A j \in 1..Len(service.Ports) : service.Ports[j] # CanonicalPort(o, p)

\* A delete reconcile of o1 has succeeded; the Service it read held the
\* desired port "h-5-a" 9/9/9 and both resources were updated.
C5_Witness ==
    \E t \in Threads :
        /\ DeleteSucceeded(t) /\ ~th[t].extCM /\ ~th[t].extSvc /\ th[t].obj = "o1"
        /\ th[t].cmCalls > 0 /\ th[t].svcCalls > 0
        /\ \E k \in 1..Len(PortsRead(t)) :
              PortsRead(t)[k] = Port(<< "h", "-", "5", "-", "a" >>, "TCP", 9, 9, 9)
        /\ Len(service.Ports) < Len(PortsRead(t))

(***************************************************************************)
(* C6, as claimed: in a delete reconcile, once a handler has read a        *)
(* non-empty pod list the reconcile is cancelled and no update was issued  *)
(* to the ConfigMap or the Service during that reconcile.                  *)
(***************************************************************************)
C6_Original ==
    \A t \in Threads :
        th[t].sawPods # 0 =>
            /\ th[t].canceled /\ th[t].pc \in { "end", "done" }
            /\ th[t].cmCalls = 0 /\ th[t].svcCalls = 0

(***************************************************************************)
(* C6, amended: the reconcile is cancelled and neither the handler that    *)
(* read the non-empty pod list nor a later handler issues an update; an    *)
(* update that an earlier handler of the same reconcile issued after       *)
(* reading an empty pod list stands.                                       *)
(***************************************************************************)
C6_Amended ==
    \A t \in Threads :
        th[t].sawPods # 0 =>
            /\ th[t].canceled /\ th[t].pc \in { "end", "done" }
            /\ th[t].res = th[t].sawPods
            /\ th[t].svcCalls = 0
            /\ th[t].sawPods = 1 => th[t].cmCalls = 0

\* The Service handler of a delete reconcile has read a non-empty pod list
\* after the ConfigMap handler had had its update accepted.
C6_Witness ==
    \E t \in Threads : th[t].sawPods = 2 /\ th[t].cmCalls > 0 /\ th[t].pc = "done"

(***************************************************************************)
(* C7: the cleanup finalizer of o goes away only in the last step of a     *)
(* delete reconcile of o in which both handlers succeeded and none         *)
(* cancelled or asked to keep the finalizer; when any other reconcile of   *)
(* an object that still exists has ended, the finalizer is on the object.  *)
(***************************************************************************)
C7_FinalizerRemoval ==
    /\ [] ( \A t \in Threads :
              /\ th[t].pc = "done"
              /\ objects[th[t].obj].status # "gone"
              => objects[th[t].obj].finalizer )
    /\ [][ \A o \in Objs :
             objects[o].finalizer /\ ~objects'[o].finalizer =>
                \E t \in Threads :
                    /\ th[t].obj = o /\ th[t].pc = "end" /\ th'[t].pc = "done"
                    /\ th[t].deleted /\ th[t].res = 2
                    /\ ~th[t].failed /\ ~th[t].canceled /\ ~th[t].kept ]_vars

\* A delete reconcile of o1 has ended with the finalizer removed, after both
\* handlers had their update accepted.
C7_Witness ==
    \E t \in Threads :
        /\ DeleteSucceeded(t) /\ th[t].obj = "o1"
        /\ th[t].cmCalls > 0 /\ th[t].svcCalls > 0
        /\ objects["o1"].status = "gone" /\ ~objects["o1"].finalizer

(***************************************************************************)
(* C8: when an upsert reconcile of o succeeds right after another          *)
(* successful upsert reconcile of o, no other party having written since   *)
(* the first began, the second issues no update, neither for the ConfigMap *)
(* nor for the Service.                                                    *)
(***************************************************************************)
C8_SecondReconcileIssuesNoUpdate ==
    \A t \in Threads :
        UpsertSucceeded(t) /\ th[t].follows /\ ~th[t].extCM /\ ~th[t].extSvc =>
            th[t].cmCalls = 0 /\ th[t].svcCalls = 0

\* The desired ports of the object of t, as the specification words them.
CanonicalPortsOf(t) ==
    { CanonicalPort(CustomObject(th[t].obj), ProtocolPortsOf(t)[i]) :
        i \in 1..Len(ProtocolPortsOf(t)) }

WithNumber(ports, n) == { j \in 1..Len(ports) : ports[j].Port = n }

(***************************************************************************)
(* C9, as claimed: when the Service held a port with the number of a       *)
(* desired port under another name, a successful upsert reconcile (no      *)
(* other party writing the Service meanwhile) has put the desired port at  *)
(* that position, added no port with that number and changed no other port.*)
(***************************************************************************)
C9_Original ==
    \A t \in Threads :
        UpsertSucceeded(t) /\ ~th[t].extSvc =>
            LET read == PortsRead(t)
                Orphan(j) == \E d \in CanonicalPortsOf(t) :
                                read[j].Port = d.Port /\ read[j].Name # d.Name
            IN /\ Len(service.Ports) >= Len(read)
               /\ \A j \in 1..Len(read) :
                     IF Orphan(j)
                     THEN /\ service.Ports[j] \in CanonicalPortsOf(t)
                          /\ service.Ports[j].Port = read[j].Port
                          /\ Cardinality(WithNumber(service.Ports, read[j].Port))
                                = Cardinality(WithNumber(read, read[j].Port))
                     ELSE service.Ports[j] = read[j]

(***************************************************************************)
(* C9, amended: this holds of the first port of the list that carries the  *)
(* number; a later port with the same number is left as it is.             *)
(***************************************************************************)
C9_Amended ==
    \A t \in Threads :
        UpsertSucceeded(t) /\ ~th[t].extSvc =>
            LET read == PortsRead(t)
                Orphan(j) == /\ \E d \in CanonicalPortsOf(t) :
                                   read[j].Port = d.Port /\ read[j].Name # d.Name
                             /\ \A i \in 1..(j - 1) : read[i].Port # read[j].Port
            IN /\ Len(service.Ports) >= Len(read)
               /\ \A j \in 1..Len(read) :
                     IF Orphan(j)
                     THEN /\ service.Ports[j] \in CanonicalPortsOf(t)
                          /\ service.Ports[j].Port = read[j].Port
                          /\ Cardinality(WithNumber(service.Ports, read[j].Port))
                                = Cardinality(WithNumber(read, read[j].Port))
                     ELSE service.Ports[j] = read[j]

\* An upsert reconcile of o1 has succeeded: it read "h-5-z" with Port 9 at the
\* second position, where "h-5-a" 9/9/9 now is, the port "x" before it unchanged.
C9_Witness ==
    \E t \in Threads :
        /\ UpsertSucceeded(t) /\ ~th[t].extSvc /\ th[t].obj = "o1"
        /\ Len(PortsRead(t)) = 2
        /\ PortsRead(t)[2] = Port(<< "h", "-", "5", "-", "z" >>, "TCP", 9, 9, 9)
        /\ service.Ports[1] = Port(<< "x" >>, "TCP", 12, 12, 12)
        /\ service.Ports[2] = Port(<< "h", "-", "5", "-", "a" >>, "TCP", 9, 9, 9)

(***************************************************************************)
(* Callbacks invoked from several goroutines: what Service.mutex is for.   *)
(***************************************************************************)
NextConcurrent ==
    \/ CreateAndWait
    \/ StartInformer
    \/ PodsChange
    \/ UserDelete
    \/ \E t \in Threads : Callback(t)

SpecConcurrent == Init /\ [][NextConcurrent]_vars

(***************************************************************************)
(* C10: at any moment at most one reconcile of a given object is running;  *)
(* a callback for that object invoked meanwhile has not begun its          *)
(* reconcile.                                                              *)
(***************************************************************************)
C10_OneReconcilePerObject ==
    \A o \in Objs : Cardinality({ t \in Threads : Running(t) /\ th[t].obj = o }) <= 1

\* A reconcile of o1 is in its handlers while a second callback for o1 waits
\* for the mutex.
C10_Witness ==
    \E t, u \in Threads :
        /\ th[t].obj = "o1" /\ th[t].pc = "patch"
        /\ th[u].obj = "o1" /\ th[u].pc = "lock"
        /\ mutex = t

(***************************************************************************)
(* Reconciles of distinct objects in flight at the same time: the core     *)
(* serialises per object only.  Goroutine t1 reconciles o1, t2 reconciles  *)
(* o2; both objects carry the finalizer already, and o2 may be in deletion. *)
(***************************************************************************)
Own(t) == IF t = "t1" THEN "o1" ELSE "o2"

InitRace ==
    /\ \E d \in DataChoices : configMap = [ Data |-> d, ResourceVersion |-> 1 ]
    /\ \E ps \in PortChoices : service = [ Ports |-> ps, ResourceVersion |-> 1 ]
    /\ \E st \in { "live", "deleting" } :
          objects = [ o \in Objs |-> [ status |-> IF o = "o1" THEN "live" ELSE st,
                                        finalizer |-> TRUE ] ]
    /\ pods = {}
    /\ mutex = "free"
    /\ th = [ t \in Threads |-> IdleThread ]
    /\ lastOK = "none"
    /\ extWrites = 0
    /\ boot = [ crd |-> "present", pc |-> "returned", err |-> "none", informer |-> TRUE ]
    /\ unit = Nil

\* An event for the object of t is dispatched.
EmitOwn(t) ==
    /\ boot.informer
    /\ th[t].pc = "idle"
    /\ objects[Own(t)].status # "gone"
    /\ th' = [ th EXCEPT ![t] =
                 [ IdleThread EXCEPT !.pc = "lock", !.obj = Own(t),
                                     !.deleted = (objects[Own(t)].status = "deleting") ] ]
    /\ UNCHANGED << configMap, service, objects, pods, mutex, lastOK, extWrites, boot, unit >>

\* The reconcile begins at once: no reconcile of the same object is running.
Begin(t) ==
    /\ th[t].pc = "lock"
    /\ th' = [ th EXCEPT ![t].pc = "start" ]
    /\ UNCHANGED << configMap, service, objects, pods, mutex, lastOK, extWrites, boot, unit >>

\* The reconcile returns.
Return(t) ==
    /\ th[t].pc = "done"
    /\ th' = [ th EXCEPT ![t] = IdleThread ]
    /\ UNCHANGED << configMap, service, objects, pods, mutex, lastOK, extWrites, boot, unit >>

RaceCallback(t) ==
    \/ EmitOwn(t)
    \/ Begin(t)
    \/ EnsureFinalizer(t)
    \/ GetCurrentState(t)
    \/ GetDesiredState(t)
    \/ NewPatch(t)
    \/ ApplyCreateChange(t)
    \/ ApplyChange(t)
    \/ RemoveFinalizer(t)
    \/ Return(t)

NextRace == \E t \in Threads : RaceCallback(t)

SpecRace == InitRace /\ [][NextRace]_vars

\* The Update call of t is being made with an object whose resource version
\* is no longer the live one.
StaleConfigMapWrite(t) ==
    /\ th[t].pc \in { "update", "delete" } /\ th[t].res = 1 /\ th[t].change # Nil
    /\ th[t].change[1].ResourceVersion # configMap.ResourceVersion

StaleServiceWrite(t) ==
    /\ th[t].pc \in { "update", "delete" } /\ th[t].res = 2 /\ th[t].change # Nil
    /\ th[t].change[1].ResourceVersion # service.ResourceVersion

ReconcileUpsert(o, s) ==
    LET cm == configmap_newUpdateChange([ Data |-> s.Data, ResourceVersion |-> 1 ],
                                        configmap_GetDesiredState(CustomObject(o)))
        sc == service_newUpdateChange([ Ports |-> s.Ports, ResourceVersion |-> 1 ],
                                      service_GetDesiredState(CustomObject(o)))
    IN [ Data |-> cm.Data, Ports |-> IF sc = Nil THEN s.Ports ELSE sc[1].Ports ]

Live == [ Data |-> configMap.Data, Ports |-> service.Ports ]

PortSet(ports) == { ports[i] : i \in 1..Len(ports) }

C13_HandlerOrder ==
    [][\A t \in Threads :
          th'[t] # th[t] /\ Running(t) =>
             LET a == th[t]
                 b == th'[t]
             IN \/ b.pc \in { "idle", "done" }
                \/ a.pc = b.pc /\ a.res = b.res
                \/ a.pc = "start" /\ b.pc = "current" /\ b.res = 1
                \/ a.pc = "current" /\ b.pc \in { "desired", "end" } /\ b.res = a.res
                \/ a.pc = "desired" /\ b.pc = "patch" /\ b.res = a.res
                \/ a.pc = "patch" /\ b.pc \in { "create", "delete" } /\ b.res = a.res
                \/ a.pc = "create" /\ b.pc = "update" /\ b.res = a.res
                \/ /\ a.pc \in { "update", "delete" } /\ a.res = 1
                   /\ b.pc = "current" /\ b.res = 2
                \/ /\ a.pc \in { "update", "delete" } /\ a.res = 2
                   /\ b.pc = "end" /\ b.res = 2
      ]_vars

\* The ConfigMap handler has applied its change with one Update call and the
\* Service handler is about to read the Service.
C13_Witness ==
    \E t \in Threads :
        /\ th[t].pc = "current" /\ th[t].res = 2 /\ th[t].attempts = 0
        /\ th[t].cmCalls = 1 /\ th[t].svcCalls = 0 /\ th[t].read = Nil

\* The reconcile of t is in a handler operation.
InHandler(t) ==
    th[t].pc \in { "current", "desired", "patch", "create", "update", "delete" }

(***************************************************************************)
(* C14: a reconcile that finds its object without the cleanup finalizer    *)
(* adds the finalizer and ends without a handler operation and without a   *)
(* write to the ConfigMap or the Service; a handler operation runs only    *)
(* for an object that carries the finalizer.                               *)
(***************************************************************************)
C14_FinalizerFirst ==
    /\ [][\A t \in Threads :
             /\ StepOf(t)
             /\ th[t].pc = "start"
             /\ ~objects[th[t].obj].finalizer
             => /\ th'[t].pc = "done"
                /\ th'[t].res = 0 /\ th'[t].cmCalls = 0 /\ th'[t].svcCalls = 0
                /\ configMap' = configMap /\ service' = service
                /\ objects[th[t].obj].status # "gone" => objects'[th[t].obj].finalizer
       ]_vars
    /\ [](\A t \in Threads : InHandler(t) => objects[th[t].obj].finalizer)

\* The reconcile of o1 has added the finalizer and ended: no handler ran, the
\* ConfigMap and the Service are as provisioned.
C14_Witness ==
    \E t \in Threads :
        /\ th[t].pc = "done" /\ th[t].short /\ th[t].obj = "o1"
        /\ objects["o1"].finalizer
        /\ th[t].res = 0 /\ th[t].cmCalls = 0 /\ th[t].svcCalls = 0
        /\ configMap.ResourceVersion = 1 /\ service.ResourceVersion = 1

(***************************************************************************)
(* Progress.  The informer keeps emitting events for the objects it lists  *)
(* (resync), a callback that can take a step takes one, and the API server *)
(* does not refuse a request for ever: a read or an accepted write that is *)
(* possible again and again happens in the end.                            *)
(***************************************************************************)
ReadSucceeds(t, r) ==
    GetCurrentState(t) /\ th[t].res = r /\ th'[t].pc \in { "desired", "end" }

WriteSucceeds(t, r) ==
    ApplyChange(t) /\ th[t].res = r /\ th'[t].pc \in { "current", "end" }

Fairness ==
    /\ WF_vars(Callback("t1"))
    /\ \A r \in { 1, 2 } :
          SF_vars(ReadSucceeds("t1", r)) /\ SF_vars(WriteSucceeds("t1", r))

SpecLive == Spec /\ Fairness

\* The reconcile of t for o has ended with the error of an operation whose
\* retries are exhausted, and o is live.
FailedLive(t, o) ==
    th[t].pc = "done" /\ th[t].failed /\ th[t].obj = o /\ objects[o].status = "live"

PairsPresent(o) ==
    \A i \in 1..Len(CustomObject(o).ProtocolPorts) :
        LET p == CustomObject(o).ProtocolPorts[i]
        IN /\ Itoa(p.LBPort) \in DOMAIN configMap.Data
           /\ configMap.Data[Itoa(p.LBPort)] = CanonicalValue(CustomObject(o), p)

PortsPresent(o) ==
    \A i \in 1..Len(CustomObject(o).ProtocolPorts) :
        CanonicalPort(CustomObject(o), CustomObject(o).ProtocolPorts[i])
            \in PortSet(service.Ports)

\* The Service holds, for every desired port of o, a port with its name and
\* its number.
PortsPresentByName(o) ==
    \A i \in 1..Len(CustomObject(o).ProtocolPorts) :
        LET d == CanonicalPort(CustomObject(o), CustomObject(o).ProtocolPorts[i])
        IN \E j \in 1..Len(service.Ports) :
              service.Ports[j].Name = d.Name /\ service.Ports[j].Port = d.Port

\* The informer runs, the independent owner has written and an entry of the
\* live object o is not, or not as desired, in the ConfigMap or the Service.
Drifted(o) ==
    /\ boot.informer
    /\ objects[o].status = "live"
    /\ extWrites >= 1
    /\ ~(PairsPresent(o) /\ PortsPresent(o))

C17_BoundedAttempts ==
    \A t \in Threads :
        /\ th[t].attempts < ResourceRetries
        /\ th[t].cmCalls <= ResourceRetries
        /\ th[t].svcCalls <= ResourceRetries
        /\ th[t].cmCalls = ResourceRetries /\ th[t].res = 1 =>
              th[t].pc = "done" /\ th[t].failed
        /\ th[t].svcCalls = ResourceRetries => th[t].pc \in { "end", "done" }

\* The Update of the ConfigMap was tried ResourceRetries times and the
\* reconcile has ended with the error, the Service handler not run.
C17_Witness ==
    \E t \in Threads :
        /\ th[t].pc = "done" /\ th[t].failed
        /\ th[t].res = 1 /\ th[t].cmCalls = ResourceRetries /\ th[t].svcCalls = 0

(***************************************************************************)
(* Events whose object is not an IngressConfig.                            *)
(***************************************************************************)
\* The callback is invoked with something that is not a custom object.
EmitWrongType(t) ==
    /\ boot.informer
    /\ th[t].pc = "idle"
    /\ th' = [ th EXCEPT ![t] = [ IdleThread EXCEPT !.pc = "lock", !.obj = "other" ] ]
    /\ UNCHANGED << configMap, service, objects, pods, mutex, lastOK, extWrites, boot, unit >>

NextWrongType ==
    \/ CreateAndWait
    \/ StartInformer
    \/ EmitWrongType("t1")
    \/ Callback("t1")

SpecWrongType == Init /\ [][NextWrongType]_vars

(***************************************************************************)
(* C18: a reconcile whose object is not an IngressConfig ends in the       *)
(* ConfigMap handler with the wrong-type error: no operation is attempted  *)
(* again, no Update goes to the ConfigMap or the Service, neither changes. *)
(***************************************************************************)
C18_WrongTypeDropped ==
    /\ [][\A t \in Threads :
             th'[t] # th[t] /\ th[t].obj = "other" =>
                /\ configMap' = configMap /\ service' = service
                /\ th[t].pc = "update" =>
                      th'[t].pc = "done" /\ th'[t].failed /\ th'[t].err = "wrongType"
       ]_vars
    /\ [](\A t \in Threads :
             th[t].obj = "other" =>
                /\ th[t].attempts = 0 /\ th[t].cmCalls = 0 /\ th[t].svcCalls = 0
                /\ th[t].pc \in { "lock", "start", "current", "desired", "patch",
                                  "create", "update", "done" }
                /\ th[t].res <= 1
                /\ th[t].pc = "done" => th[t].failed /\ th[t].err = "wrongType")

\* The reconcile of something that is not a custom object has ended with the
\* wrong-type error, after a reconcile of o1 wrote the ConfigMap.
C18_Witness ==
    \E t \in Threads :
        /\ th[t].obj = "other" /\ th[t].pc = "done" /\ th[t].err = "wrongType"
        /\ th[t].cmCalls = 0 /\ th[t].svcCalls = 0
        /\ configMap.ResourceVersion = 2

(***************************************************************************)
(* C19: the informer runs, and a reconcile runs, only when the             *)
(* custom-resource definition is present, and the informer is started only *)
(* after CreateAndWait returned nil or an already-exists error; when       *)
(* CreateAndWait returned another error the informer is never started.     *)
(***************************************************************************)
C19_InformerAfterDefinition ==
    /\ [](boot.informer => boot.crd = "present" /\ boot.pc = "returned")
    /\ [](\A t \in Threads : th[t].pc # "idle" => boot.informer)
    /\ [][(boot'.informer /\ ~boot.informer) => boot.err \in { "nil", "alreadyExists" }]_vars
    /\ [][(boot.pc = "returned" /\ ~boot.informer) => ~boot'.informer]_vars

\* The definition is present, the informer was started and a reconcile is in
\* its handlers.
C19_Witness ==
    /\ boot.informer /\ boot.crd = "present"
    /\ \E t \in Threads : InHandler(t)

(***************************************************************************)
(* C20: applying a create change issues no API call and changes neither    *)
(* the ConfigMap nor the Service; a reconcile changes the ConfigMap or the *)
(* Service only in its apply-update or apply-delete step, by one Update    *)
(* call that sends the object it fetched, at the resource version the live *)
(* object has.                                                             *)
(***************************************************************************)
C20_OnlyUpdates ==
    [][\A t \in Threads :
          StepOf(t) =>
             /\ th[t].pc = "create" =>
                   /\ configMap' = configMap /\ service' = service
                   /\ th'[t].cmCalls = th[t].cmCalls /\ th'[t].svcCalls = th[t].svcCalls
             /\ configMap' # configMap =>
                   /\ th[t].pc \in { "update", "delete" } /\ th[t].res = 1
                   /\ th[t].change # Nil
                   /\ th[t].change[1].ResourceVersion = configMap.ResourceVersion
                   /\ th'[t].cmCalls = th[t].cmCalls + 1
             /\ service' # service =>
                   /\ th[t].pc \in { "update", "delete" } /\ th[t].res = 2
                   /\ th[t].change # Nil
                   /\ th[t].change[1].ResourceVersion = service.ResourceVersion
                   /\ th'[t].svcCalls = th[t].svcCalls + 1
      ]_vars

\* The create change of the ConfigMap handler has been applied: no call was
\* made, the ConfigMap is as provisioned and lacks the pairs of o1, which the
\* update change is about to send.
C20_Witness ==
    \E t \in Threads :
        /\ th[t].pc = "update" /\ th[t].res = 1 /\ th[t].obj = "o1"
        /\ th[t].attempts = 0 /\ th[t].cmCalls = 0
        /\ configMap.ResourceVersion = 1 /\ configMap.Data = EmptyMap
        /\ th[t].change # Nil /\ th[t].change[1].Data # EmptyMap

(***************************************************************************)
(* The handler functions on their own: GetDesiredState and the diffs of    *)
(* both handlers are applied to objects, ConfigMaps and Services drawn     *)
(* from bounded sets.                                                      *)
(***************************************************************************)
\* Longest ProtocolPorts list of an object handed to a handler function.
MaxPorts == 3

\* Longest port list of a Service handed to a diff.
MaxCurrentPorts == 3

RECURSIVE SeqsUpTo(_, _)
\* The sequences over S of length at most n.
SeqsUpTo(S, n) ==
    IF n = 0 THEN { << >> }
    ELSE LET shorter == SeqsUpTo(S, n - 1)
         IN shorter \cup { Append(q, x) : q \in { y \in shorter : Len(y) = n - 1 }, x \in S }

ProtocolPortChoices ==
    [ Protocol : { << "h" >>, << "s" >> }, IngressPort : { 5, 6 }, LBPort : { 9, 10, 11 } ]

\* The invariants an IngressConfig is assumed to satisfy: within one object
\* the LBPort values are unique and so are the (Protocol, IngressPort) pairs.
ValidProtocolPorts(pp) ==
    \A i, j \in 1..Len(pp) :
        i # j => /\ pp[i].LBPort # pp[j].LBPort
                 /\ << pp[i].Protocol, pp[i].IngressPort >>
                        # << pp[j].Protocol, pp[j].IngressPort >>

UnitObjects ==
    { [ ID |-> << "a" >>, Namespace |-> << "n" >>, Service |-> << "w" >>,
        ProtocolPorts |-> pp ] :
        pp \in { q \in SeqsUpTo(ProtocolPortChoices, MaxPorts) : ValidProtocolPorts(q) } }

\* ConfigMap data handed to a diff: any of the keys 9, 10 and 12 with a value
\* of tenant n or a value of nobody.
UnitDataChoices ==
    UNION { [ K -> { DataValueFormat(<< "n" >>, << "w" >>, 5),
                     DataValueFormat(<< "n" >>, << "w" >>, 6), << "x" >> } ] :
            K \in SUBSET { Itoa(9), Itoa(10), Itoa(12) } }

\* Service ports handed to a diff: the two ports of o1, a port with o1's first
\* number under another name, o1's first port with another node port, a UDP
\* port with o1's first number and a port of nobody.
UnitPortPool ==
    { Port(<< "h", "-", "5", "-", "a" >>, "TCP", 9, 9, 9),
      Port(<< "s", "-", "6", "-", "a" >>, "TCP", 10, 10, 10),
      Port(<< "h", "-", "5", "-", "z" >>, "TCP", 9, 9, 9),
      Port(<< "h", "-", "5", "-", "a" >>, "TCP", 9, 9, 13),
      Port(<< "u" >>, "UDP", 9, 9, 9),
      Port(<< "x" >>, "TCP", 12, 12, 12) }

UnitPortChoices ==
    { q \in SeqsUpTo(UnitPortPool, MaxCurrentPorts) : ValidService(q) }

InitUnit ==
    /\ configMap = [ Data |-> EmptyMap, ResourceVersion |-> 1 ]
    /\ service = [ Ports |-> << >>, ResourceVersion |-> 1 ]
    /\ objects = [ o \in Objs |-> [ status |-> "gone", finalizer |-> FALSE ] ]
    /\ pods = {}
    /\ mutex = "free"
    /\ th = [ t \in Threads |-> IdleThread ]
    /\ lastOK = "none"
    /\ extWrites = 0
    /\ boot = [ crd |-> "present", pc |-> "new", err |-> "none", informer |-> FALSE ]
    /\ \E customObject \in UnitObjects :
          \/ \E d \in UnitDataChoices :
                unit = [ kind |-> "configmap", obj |-> customObject,
                         current |-> [ Data |-> d, ResourceVersion |-> 1 ],
                         pc |-> "new", desired |-> Nil,
                         updated |-> FALSE, update |-> Nil,
                         deleted |-> FALSE, delete |-> Nil ]
          \/ \E ps \in UnitPortChoices :
                unit = [ kind |-> "service", obj |-> customObject,
                         current |-> [ Ports |-> ps, ResourceVersion |-> 1 ],
                         pc |-> "new", desired |-> Nil,
                         updated |-> FALSE, update |-> Nil,
                         deleted |-> FALSE, delete |-> Nil ]

UnitUnchanged ==
    UNCHANGED << configMap, service, objects, pods, mutex, th, lastOK, extWrites, boot >>

\* GetDesiredState(ctx, obj) of the handler.
UnitGetDesiredState ==
    /\ unit.pc = "new"
    /\ unit' = [ unit EXCEPT !.pc = "desired",
                             !.desired = IF unit.kind = "configmap"
                                         THEN configmap_GetDesiredState(unit.obj)
                                         ELSE service_GetDesiredState(unit.obj) ]
    /\ UnitUnchanged

\* newUpdateChange(ctx, obj, currentState, desiredState) of the handler.
UnitNewUpdateChange ==
    /\ unit.pc = "desired"
    /\ ~unit.updated
    /\ unit' = [ unit EXCEPT !.updated = TRUE,
                             !.update = IF unit.kind = "configmap"
                                        THEN Some(configmap_newUpdateChange(unit.current,
                                                                            unit.desired))
                                        ELSE service_newUpdateChange(unit.current,
                                                                     unit.desired) ]
    /\ UnitUnchanged

\* newDeleteChange(ctx, obj, currentState, desiredState) of the handler.
UnitNewDeleteChange ==
    /\ unit.pc = "desired"
    /\ ~unit.deleted
    /\ unit' = [ unit EXCEPT !.deleted = TRUE,
                             !.delete = IF unit.kind = "configmap"
                                        THEN configmap_newDeleteChange(unit.current,
                                                                       unit.desired)
                                        ELSE service_newDeleteChange(unit.current,
                                                                     unit.desired) ]
    /\ UnitUnchanged

NextUnit == UnitGetDesiredState \/ UnitNewUpdateChange \/ UnitNewDeleteChange

SpecUnit == InitUnit /\ [][NextUnit]_vars

(***************************************************************************)
(* Reading a decimal string back.                                          *)
(***************************************************************************)
DigitValue(c) == CHOOSE d \in 0..9 : Digit(d) = c

RECURSIVE Atoi(_)
Atoi(s) == IF Len(s) = 0 THEN 0
           ELSE 10 * Atoi(SubSeq(s, 1, Len(s) - 1)) + DigitValue(s[Len(s)])

\* s is the decimal numeral of n: digits only, no leading zero, value n.
IsDecimalOf(s, n) ==
    /\ Len(s) >= 1
    /\ \A i \in 1..Len(s) : \E d \in 0..9 : Digit(d) = s[i]
    /\ Len(s) > 1 => s[1] # "0"
    /\ Atoi(s) = n

\* s is prefix, then the decimal numeral of n, then suffix.
IsFormatted(s, prefix, n, suffix) ==
    /\ Len(s) > Len(prefix) + Len(suffix)
    /\ SubSeq(s, 1, Len(prefix)) = prefix
    /\ SubSeq(s, Len(s) - Len(suffix) + 1, Len(s)) = suffix
    /\ IsDecimalOf(SubSeq(s, Len(prefix) + 1, Len(s) - Len(suffix)), n)

\* C21: GetDesiredState of the ConfigMap handler returns exactly one entry per
\* ProtocolPort of the object: its key is the decimal numeral of LBPort, its
\* value "{Namespace}/{Service}:{IngressPort}", and there is no other entry.
C21_DesiredPairs ==
    (unit # Nil /\ unit.kind = "configmap" /\ unit.pc = "desired") =>
        LET pp == unit.obj.ProtocolPorts
            IsEntryOf(k, i) ==
                /\ IsDecimalOf(k, pp[i].LBPort)
                /\ IsFormatted(unit.desired[k],
                               unit.obj.Namespace \o << "/" >> \o unit.obj.Service \o << ":" >>,
                               pp[i].IngressPort, << >>)
        IN /\ Cardinality(DOMAIN unit.desired) = Len(pp)
           /\ \A i \in 1..Len(pp) : \E k \in DOMAIN unit.desired : IsEntryOf(k, i)
           /\ \A k \in DOMAIN unit.desired : \E i \in 1..Len(pp) : IsEntryOf(k, i)

\* An object with two ports, one of them with a two-digit number, has had its
\* desired ConfigMap data computed.
C21_Witness ==
    /\ unit # Nil
    /\ unit.kind = "configmap"
    /\ unit.pc = "desired"
    /\ Len(unit.obj.ProtocolPorts) = 2
    /\ << "1", "0" >> \in DOMAIN unit.desired
    /\ << "9" >> \in DOMAIN unit.desired

\* C22: GetDesiredState of the Service handler returns one port per
\* ProtocolPort, in the order of ProtocolPorts; the i-th port is named
\* "{Protocol}-{IngressPort}-{GuestCluster.ID}", has Protocol TCP whatever the
\* protocol string of the ProtocolPort is, and Port, TargetPort and NodePort
\* equal to LBPort.
C22_DesiredPorts ==
    (unit # Nil /\ unit.kind = "service" /\ unit.pc = "desired") =>
        LET pp == unit.obj.ProtocolPorts
        IN /\ Len(unit.desired) = Len(pp)
           /\ \A i \in 1..Len(pp) :
                 /\ IsFormatted(unit.desired[i].Name, pp[i].Protocol \o << "-" >>,
                                pp[i].IngressPort, << "-" >> \o unit.obj.ID)
                 /\ unit.desired[i].Protocol = "TCP"
                 /\ unit.desired[i].Port = pp[i].LBPort
                 /\ unit.desired[i].TargetPort = pp[i].LBPort
                 /\ unit.desired[i].NodePort = pp[i].LBPort

\* An object with two ports of different protocol strings, the larger LB port
\* first, has had its desired Service ports computed.
C22_Witness ==
    /\ unit # Nil
    /\ unit.kind = "service"
    /\ unit.pc = "desired"
    /\ Len(unit.obj.ProtocolPorts) = 2
    /\ unit.obj.ProtocolPorts[1].Protocol # unit.obj.ProtocolPorts[2].Protocol
    /\ unit.obj.ProtocolPorts[1].LBPort = 10
    /\ unit.desired[1].Port = 10
    /\ unit.desired[2].Port = 9

\* C23: when every desired (key, value) pair is already present in the data
\* of the current ConfigMap, the update diff of the ConfigMap handler produces
\* no change, so that ApplyUpdateChange issues no update.
C23_NoChangeWhenPresent ==
    ( /\ unit # Nil
      /\ unit.kind = "configmap"
      /\ unit.updated
      /\ Len(unit.obj.ProtocolPorts) >= 1
      /\ \A k \in DOMAIN unit.desired :
            inConfigMapData(unit.current.Data, k, unit.desired[k]) )
        => unit.update = Nil

\* The first port of the list with number n is at position i.
IsFirstWithNumber(ports, i, n) ==
    /\ i \in 1..Len(ports)
    /\ ports[i].Port = n
    /\ \A j \in 1..(i - 1) : ports[j].Port # n

\* What the update diff is to make of the current ports: a port that is the
\* first with the number of a desired port and has another name gives way to
\* that desired port, and the desired ports whose number no current port
\* carries follow in the order of the desired list.
ExpectedUpdate(current, desired) ==
    [ i \in 1..Len(current) |->
        IF \E k \in 1..Len(desired) :
              IsFirstWithNumber(current, i, desired[k].Port)
              /\ current[i].Name # desired[k].Name
        THEN desired[CHOOSE k \in 1..Len(desired) :
                        IsFirstWithNumber(current, i, desired[k].Port)]
        ELSE current[i] ]
    \o SelectSeq(desired, LAMBDA d : WithNumber(current, d.Port) = {})

UnitServiceUpdated == unit # Nil /\ unit.kind = "service" /\ unit.updated

(***************************************************************************)
(* C24, as claimed: the update diff of the Service handler returns an      *)
(* empty change if and only if every desired port's number is carried by   *)
(* some current port with the desired name; otherwise it returns the       *)
(* fetched Service with the mutations applied.                             *)
(***************************************************************************)
C24_Original ==
    UnitServiceUpdated =>
        /\ unit.update = Nil <=>
              \A k \in 1..Len(unit.desired) :
                  \E i \in 1..Len(unit.current.Ports) :
                      /\ unit.current.Ports[i].Port = unit.desired[k].Port
                      /\ unit.current.Ports[i].Name = unit.desired[k].Name
        /\ unit.update # Nil =>
              unit.update = Some([ unit.current EXCEPT !.Ports =
                                     ExpectedUpdate(unit.current.Ports, unit.desired) ])

\* C24, amended: the update diff of the Service handler returns an empty
\* change if and only if, for every desired port, the first current port that
\* carries its number has the desired name; otherwise it returns the fetched
\* Service with the mutations applied.
C24_Amended ==
    UnitServiceUpdated =>
        /\ unit.update = Nil <=>
              \A k \in 1..Len(unit.desired) :
                  \E i \in 1..Len(unit.current.Ports) :
                      /\ IsFirstWithNumber(unit.current.Ports, i, unit.desired[k].Port)
                      /\ unit.current.Ports[i].Name = unit.desired[k].Name
        /\ unit.update # Nil =>
              unit.update = Some([ unit.current EXCEPT !.Ports =
                                     ExpectedUpdate(unit.current.Ports, unit.desired) ])

\* The diff has returned a change although the number of the only desired
\* port is carried by a current port with the desired name: an earlier port
\* has the number under another name.
C24_Witness ==
    /\ UnitServiceUpdated
    /\ Len(unit.desired) = 1
    /\ \E i \in 1..Len(unit.current.Ports) :
          /\ unit.current.Ports[i].Port = unit.desired[1].Port
          /\ unit.current.Ports[i].Name = unit.desired[1].Name
          /\ ~IsFirstWithNumber(unit.current.Ports, i, unit.desired[1].Port)
    /\ unit.update # Nil

\* The positions of the current ports that equal no desired port in name,
\* protocol, port, target port and node port.
KeptPositions(current, desired) ==
    { i \in 1..Len(current) :
        \A k \in 1..Len(desired) :
            \/ current[i].Name # desired[k].Name
            \/ current[i].Protocol # desired[k].Protocol
            \/ current[i].Port # desired[k].Port
            \/ current[i].TargetPort # desired[k].TargetPort
            \/ current[i].NodePort # desired[k].NodePort }

\* C26: the delete diff of each handler returns the fetched resource with
\* exactly those current entries removed that equal a desired entry (same key
\* and value for the ConfigMap; same name, protocol, port, target port and
\* node port for the Service); every other current entry is kept, the Service
\* ports in their original relative order.
C26_DeleteDiff ==
    (unit # Nil /\ unit.deleted) =>
        /\ unit.delete.ResourceVersion = unit.current.ResourceVersion
        /\ unit.kind = "configmap" =>
              /\ DOMAIN unit.delete.Data =
                    { k \in DOMAIN unit.current.Data :
                        ~(k \in DOMAIN unit.desired
                          /\ unit.desired[k] = unit.current.Data[k]) }
              /\ \A k \in DOMAIN unit.delete.Data :
                    unit.delete.Data[k] = unit.current.Data[k]
        /\ unit.kind = "service" =>
              LET Keep == KeptPositions(unit.current.Ports, unit.desired)
              IN /\ Len(unit.delete.Ports) = Cardinality(Keep)
                 /\ \A i \in Keep :
                       unit.delete.Ports[Cardinality({ j \in Keep : j <= i })]
                           = unit.current.Ports[i]

\* The delete diff of the Service handler has removed the second of three
\* current ports and kept the other two, one of them a port with a desired
\* name and number and another node port.
C26_Witness ==
    /\ unit # Nil
    /\ unit.kind = "service"
    /\ unit.deleted
    /\ Len(unit.current.Ports) = 3
    /\ KeptPositions(unit.current.Ports, unit.desired) = { 1, 3 }
    /\ unit.delete.Ports = << unit.current.Ports[1], unit.current.Ports[3] >>
    /\ \E k \in 1..Len(unit.desired) :
          /\ unit.current.Ports[3].Name = unit.desired[k].Name
          /\ unit.current.Ports[3].Port = unit.desired[k].Port

\* The ports the update diff leaves the Service with: those of the change, or
\* the current ones when the change is empty.
UnitNewPorts == IF unit.update = Nil THEN unit.current.Ports ELSE unit.update[1].Ports

\* The Service handed to the update diff holds at least one desired port.
UnitHoldsDesired ==
    /\ UnitServiceUpdated
    /\ \E k \in 1..Len(unit.desired) : unit.desired[k] \in PortSet(unit.current.Ports)

\* The desired ports whose number no current port carries, in the order of
\* the desired list.
UnitMissing ==
    SelectSeq(unit.desired, LAMBDA d : WithNumber(unit.current.Ports, d.Port) = {})

(***************************************************************************)
(* C27, as claimed: when the Service already holds some of the desired     *)
(* ports, the update diff keeps every current port at its position and     *)
(* appends the missing desired ports after them in the order in which they *)
(* appear in the desired list.                                             *)
(***************************************************************************)
C27_Original ==
    UnitHoldsDesired =>
        /\ Len(UnitNewPorts) = Len(unit.current.Ports) + Len(UnitMissing)
        /\ \A i \in 1..Len(unit.current.Ports) : UnitNewPorts[i] = unit.current.Ports[i]
        /\ SubSeq(UnitNewPorts, Len(unit.current.Ports) + 1, Len(UnitNewPorts)) = UnitMissing

\* C27, amended: when the Service already holds some of the desired ports, the
\* update diff keeps every current port at its position, except that the first
\* port carrying the number of a desired port under another name is replaced
\* by that desired port, and appends the desired ports whose number no current
\* port carries after them in the order in which they appear in the desired
\* list.
C27_Amended ==
    UnitHoldsDesired =>
        /\ Len(UnitNewPorts) = Len(unit.current.Ports) + Len(UnitMissing)
        /\ \A i \in 1..Len(unit.current.Ports) :
              \/ /\ UnitNewPorts[i] = unit.current.Ports[i]
                 /\ ~\E k \in 1..Len(unit.desired) :
                        /\ IsFirstWithNumber(unit.current.Ports, i, unit.desired[k].Port)
                        /\ unit.current.Ports[i].Name # unit.desired[k].Name
              \/ \E k \in 1..Len(unit.desired) :
                    /\ IsFirstWithNumber(unit.current.Ports, i, unit.desired[k].Port)
                    /\ unit.current.Ports[i].Name # unit.desired[k].Name
                    /\ UnitNewPorts[i] = unit.desired[k]
        /\ SubSeq(UnitNewPorts, Len(unit.current.Ports) + 1, Len(UnitNewPorts)) = UnitMissing

\* The Service held the second of three desired ports and a port with the
\* number of the first under another name: that port has been replaced in
\* place and the third desired port appended.
C27_Witness ==
    /\ UnitHoldsDesired
    /\ Len(unit.desired) = 3
    /\ Len(unit.current.Ports) = 2
    /\ unit.current.Ports[1] = unit.desired[2]
    /\ unit.current.Ports[2].Port = unit.desired[1].Port
    /\ unit.current.Ports[2].Name # unit.desired[1].Name
    /\ UnitNewPorts = << unit.desired[2], unit.desired[1], unit.desired[3] >>

(***************************************************************************)
(* The first operator: one Service that implements the Operator interface  *)
(* for the ConfigMap and the Service together, driven by ProcessCreate and *)
(* ProcessDelete of the framework.                                         *)
(***************************************************************************)
\* GetEmptyState(): DesiredState{}.
operator_GetEmptyState == [ ConfigMapData |-> EmptyMap, ServicePorts |-> << >> ]

\* GetDeleteState(obj, currentState, desiredState): the fetched resources
\* without what is in the desired state.
operator_GetDeleteState(cState, dState) ==
    [ ConfigMap |->
        [ cState.ConfigMap EXCEPT !.Data =
            [ k \in { x \in DOMAIN cState.ConfigMap.Data :
                        ~inConfigMapData(dState.ConfigMapData, x, cState.ConfigMap.Data[x]) }
                |-> cState.ConfigMap.Data[k] ] ],
      Service |->
        [ cState.Service EXCEPT !.Ports =
            SelectSeq(cState.Service.Ports,
                      LAMBDA p : ~inServicePorts(dState.ServicePorts, p)) ] ]

IdleOperator ==
    [ kind |-> "operator", pc |-> "idle", obj |-> "none", event |-> "none",
      currentState |-> Nil, desiredState |-> Nil, createState |-> Nil,
      deleteState |-> Nil, err |-> "none" ]

InitOperator ==
    /\ \E d \in DataChoices : configMap = [ Data |-> d, ResourceVersion |-> 1 ]
    /\ \E ps \in PortChoices : service = [ Ports |-> ps, ResourceVersion |-> 1 ]
    /\ objects = [ o \in Objs |-> [ status |-> "gone", finalizer |-> FALSE ] ]
    /\ pods = {}
    /\ mutex = "free"
    /\ th = [ t \in Threads |-> IdleThread ]
    /\ lastOK = "none"
    /\ extWrites = 0
    /\ boot = [ crd |-> "present", pc |-> "returned", err |-> "none", informer |-> TRUE ]
    /\ unit = IdleOperator

\* deleteFunc(obj): the informer reports that the object is gone; the
\* callback takes the mutex.
operator_deleteFunc ==
    /\ unit.pc = "idle"
    /\ MutexLock(mutex)
    /\ mutex' = "operator"
    /\ \E o \in Objs :
          unit' = [ IdleOperator EXCEPT !.pc = "current", !.obj = o, !.event = "delete" ]
    /\ UNCHANGED << configMap, service, objects, pods, th, lastOK, extWrites, boot >>

\* addFunc(obj): the informer reports the object; the callback takes the
\* mutex.
operator_addFunc ==
    /\ unit.pc = "idle"
    /\ MutexLock(mutex)
    /\ mutex' = "operator"
    /\ \E o \in Objs :
          unit' = [ IdleOperator EXCEPT !.pc = "current", !.obj = o, !.event = "create" ]
    /\ UNCHANGED << configMap, service, objects, pods, th, lastOK, extWrites, boot >>

\* GetCurrentState(obj): Get of the ConfigMap, then Get of the Service.
\* ProcessDelete goes on with the empty desired state, ProcessCreate with
\* GetDesiredState.
operator_GetCurrentState ==
    /\ unit.pc = "current"
    /\ \/ unit' = [ unit EXCEPT !.pc = "return", !.err = "GetCurrentState" ]
       \/ unit' = [ unit EXCEPT !.pc = IF unit.event = "delete"
                                       THEN "deleteState" ELSE "desired",
                                !.currentState =
                                    Some([ ConfigMap |-> configMap, Service |-> service ]),
                                !.desiredState = IF unit.event = "delete"
                                                 THEN Some(operator_GetEmptyState) ELSE Nil ]
    /\ UNCHANGED << configMap, service, objects, pods, mutex, th, lastOK, extWrites, boot >>

\* GetDesiredState(obj): the pairs and the ports of the object.
operator_GetDesiredState(customObject) ==
    [ ConfigMapData |-> configmap_GetDesiredState(customObject),
      ServicePorts |-> service_GetDesiredState(customObject) ]

RECURSIVE operator_appendMissing(_, _, _)
\* The loop of GetCreateState over the desired ports: a port that is not in
\* the list is appended.
operator_appendMissing(ports, desired, i) ==
    IF i > Len(desired) THEN ports
    ELSE operator_appendMissing(IF inServicePorts(ports, desired[i]) THEN ports
                                ELSE Append(ports, desired[i]),
                                desired, i + 1)

\* GetCreateState(obj, currentState, desiredState): the fetched resources
\* with what of the desired state is not in them.
operator_GetCreateState(cState, dState) ==
    [ ConfigMap |->
        [ cState.ConfigMap EXCEPT !.Data =
            [ k \in (DOMAIN cState.ConfigMap.Data) \cup (DOMAIN dState.ConfigMapData) |->
                IF /\ k \in DOMAIN dState.ConfigMapData
                   /\ ~inConfigMapData(cState.ConfigMap.Data, k, dState.ConfigMapData[k])
                THEN dState.ConfigMapData[k] ELSE cState.ConfigMap.Data[k] ] ],
      Service |->
        [ cState.Service EXCEPT !.Ports =
            operator_appendMissing(cState.Service.Ports, dState.ServicePorts, 1) ] ]

\* ProcessCreate goes on: GetDesiredState.
operator_ProcessCreate_GetDesiredState ==
    /\ unit.pc = "desired"
    /\ unit' = [ unit EXCEPT !.pc = "createState",
                             !.desiredState =
                                 Some(operator_GetDesiredState(CustomObject(unit.obj))) ]
    /\ UNCHANGED << configMap, service, objects, pods, mutex, th, lastOK, extWrites, boot >>

\* ProcessCreate goes on: GetCreateState.  The create state is a copy of the
\* ConfigMap struct, which shares its Data map with the current state: the
\* pairs set in the one are set in the other.  The ports are appended to the
\* copy's slice, the current state keeps its own length.
operator_ProcessCreate_GetCreateState ==
    /\ unit.pc = "createState"
    /\ LET createState == operator_GetCreateState(unit.currentState[1], unit.desiredState[1])
       IN unit' = [ unit EXCEPT !.pc = "processCreate",
                                !.createState = Some(createState),
                                !.currentState =
                                    Some([ unit.currentState[1] EXCEPT
                                             !.ConfigMap.Data = createState.ConfigMap.Data ]) ]
    /\ UNCHANGED << configMap, service, objects, pods, mutex, th, lastOK, extWrites, boot >>

\* ProcessCreateState(obj, createState): Update of the ConfigMap, then Update
\* of the Service; the first error ends ProcessCreate, else it goes on with
\* GetDeleteState on the same current and desired state.
operator_ProcessCreateState ==
    /\ unit.pc = "processCreate"
    /\ LET cState == unit.createState[1]
       IN \/ /\ unit' = [ unit EXCEPT !.pc = "return", !.err = "ConfigMaps.Update" ]
             /\ UNCHANGED << configMap, service >>
          \/ /\ ConfigMapUpdateAccepted(configMap, cState.ConfigMap)
             /\ configMap' = ConfigMapUpdated(configMap, cState.ConfigMap)
             /\ \/ /\ unit' = [ unit EXCEPT !.pc = "return", !.err = "Services.Update" ]
                   /\ UNCHANGED service
                \/ /\ ServiceUpdateAccepted(service, cState.Service)
                   /\ service' = ServiceUpdated(service, cState.Service)
                   /\ unit' = [ unit EXCEPT !.pc = "deleteState" ]
    /\ UNCHANGED << objects, pods, mutex, th, lastOK, extWrites, boot >>

\* GetDeleteState on the current and the desired state of the flow: for
\* ProcessDelete after desiredState := GetEmptyState(), for ProcessCreate
\* after ProcessCreateState.
operator_ProcessDelete_GetDeleteState ==
    /\ unit.pc = "deleteState"
    /\ unit' = [ unit EXCEPT !.pc = "processDelete",
                             !.deleteState =
                                 Some(operator_GetDeleteState(unit.currentState[1],
                                                              unit.desiredState[1])) ]
    /\ UNCHANGED << configMap, service, objects, pods, mutex, th, lastOK, extWrites, boot >>

\* ProcessDeleteState(obj, deleteState): Update of the ConfigMap, then Update
\* of the Service; the first error ends it.
operator_ProcessDeleteState ==
    /\ unit.pc = "processDelete"
    /\ LET dState == unit.deleteState[1]
       IN \/ /\ unit' = [ unit EXCEPT !.pc = "return", !.err = "ConfigMaps.Update" ]
             /\ UNCHANGED << configMap, service >>
          \/ /\ ConfigMapUpdateAccepted(configMap, dState.ConfigMap)
             /\ configMap' = ConfigMapUpdated(configMap, dState.ConfigMap)
             /\ \/ /\ unit' = [ unit EXCEPT !.pc = "return", !.err = "Services.Update" ]
                   /\ UNCHANGED service
                \/ /\ ServiceUpdateAccepted(service, dState.Service)
                   /\ service' = ServiceUpdated(service, dState.Service)
                   /\ unit' = [ unit EXCEPT !.pc = "return" ]
    /\ UNCHANGED << objects, pods, mutex, th, lastOK, extWrites, boot >>

\* The callback logs the error, if any, and releases the mutex.
operator_return ==
    /\ unit.pc = "return"
    /\ unit' = [ unit EXCEPT !.pc = "done" ]
    /\ mutex' = "free"
    /\ UNCHANGED << configMap, service, objects, pods, th, lastOK, extWrites, boot >>

\* The next event is awaited.  No callback holds a resource version now and
\* versions are only compared for equality, so they are counted from 1 again.
operator_next ==
    /\ unit.pc = "done"
    /\ unit' = IdleOperator
    /\ configMap' = [ configMap EXCEPT !.ResourceVersion = 1 ]
    /\ service' = [ service EXCEPT !.ResourceVersion = 1 ]
    /\ UNCHANGED << objects, pods, mutex, th, lastOK, extWrites, boot >>

NextOperator ==
    \/ operator_deleteFunc
    \/ operator_addFunc
    \/ operator_GetCurrentState
    \/ operator_ProcessCreate_GetDesiredState
    \/ operator_ProcessCreate_GetCreateState
    \/ operator_ProcessCreateState
    \/ operator_ProcessDelete_GetDeleteState
    \/ operator_ProcessDeleteState
    \/ operator_return
    \/ operator_next

SpecOperator == InitOperator /\ [][NextOperator]_vars

\* ProcessDelete of the first operator has returned without error.
OperatorDeleted ==
    /\ unit # Nil
    /\ unit.kind = "operator"
    /\ unit.pc = "done"
    /\ unit.event = "delete"
    /\ unit.err = "none"

\* C25: on a delete event, where the reconciler passes an empty desired state
\* to the handlers, the delete diff removes exactly the (key, value) pairs and
\* ports that match the object's canonical entries and leaves all others
\* intact: after the delete flow the ConfigMap and the Service are what was
\* fetched without the canonical entries of the object.
C25_DeleteRemovesCanonical ==
    OperatorDeleted =>
        LET customObject == CustomObject(unit.obj)
            pp == customObject.ProtocolPorts
            fetched == unit.currentState[1]
            IsCanonicalPair(k) ==
                \E i \in 1..Len(pp) :
                    /\ k = Itoa(pp[i].LBPort)
                    /\ fetched.ConfigMap.Data[k] = CanonicalValue(customObject, pp[i])
            IsCanonicalPort(p) ==
                \E i \in 1..Len(pp) : p = CanonicalPort(customObject, pp[i])
        IN /\ configMap.Data =
                 [ k \in { x \in DOMAIN fetched.ConfigMap.Data : ~IsCanonicalPair(x) } |->
                     fetched.ConfigMap.Data[k] ]
           /\ service.Ports =
                 SelectSeq(fetched.Service.Ports, LAMBDA p : ~IsCanonicalPort(p))

\* The reconcile of t was cancelled by the ConfigMap handler, the first of
\* the two.
CancelledByConfigMap(t) == th[t].canceled /\ th[t].res = 1

\* C28: if the ConfigMap handler cancels itself during a reconcile, no
\* operation of the Service handler is invoked in that reconcile (the Service
\* is neither read nor written by it) and the reconcile neither adds nor
\* removes the finalizer: the object keeps the finalizer it was deleted with.
C28_CancelEndsReconcile ==
    /\ [](\A t \in Threads :
            CancelledByConfigMap(t) =>
                /\ th[t].read = Nil
                /\ th[t].svcCalls = 0
                /\ th[t].cmCalls = 0
                /\ objects[th[t].obj] = [ status |-> "deleting", finalizer |-> TRUE ])
    /\ [][\A t \in Threads :
            (CancelledByConfigMap(t) /\ StepOf(t)) =>
                /\ objects' = objects
                /\ service' = service
                /\ configMap' = configMap
                /\ th'[t].pc \in { "done", "idle" }
                /\ th'[t].res \in { 0, 1 }]_vars

\* A reconcile that the ConfigMap handler cancelled has ended.
C28_Witness ==
    \E t \in Threads :
        /\ CancelledByConfigMap(t)
        /\ th[t].pc = "done"
        /\ th[t].deleted
        /\ th[t].obj \in pods
        /\ objects[th[t].obj].finalizer

\* A delete reconcile of o has ended cancelled: a handler found pods in the
\* tenant namespace.
CancelledDelete(t, o) ==
    th[t].pc = "done" /\ th[t].canceled /\ th[t].deleted /\ th[t].obj = o

\* A delete reconcile of o has succeeded and the finalizer of o is removed;
\* the ConfigMap and the Service, where no other party wrote to them during
\* that reconcile, hold no canonical pair and no canonical port of o.
CleanedUp(o) ==
    /\ objects[o] = [ status |-> "gone", finalizer |-> FALSE ]
    /\ \E t \in Threads :
          /\ DeleteSucceeded(t)
          /\ th[t].obj = o
          /\ ~th[t].extCM =>
                \A i \in 1..Len(CustomObject(o).ProtocolPorts) :
                    ~inConfigMapData(configMap.Data,
                                     Itoa(CustomObject(o).ProtocolPorts[i].LBPort),
                                     CanonicalValue(CustomObject(o),
                                                    CustomObject(o).ProtocolPorts[i]))
          /\ ~th[t].extSvc =>
                \A i \in 1..Len(CustomObject(o).ProtocolPorts) :
                    CanonicalPort(CustomObject(o), CustomObject(o).ProtocolPorts[i])
                        \notin PortSet(service.Ports)

\* C29: if a delete reconcile of o was cancelled because tenant pods existed,
\* then, once the pod list of the tenant namespace of o is empty for good, a
\* later replayed delete event leads to a delete reconcile that removes the
\* canonical entries of o from the ConfigMap and the Service, and the
\* finalizer of o is removed.  The object is o1, the one that lives here.
C29_CancelledDeleteCompletes ==
    (<>[]("o1" \notin pods)) =>
        ((\E t \in Threads : CancelledDelete(t, "o1")) ~> CleanedUp("o1"))

\* A delete reconcile of o1 has ended cancelled, the pods of its tenant
\* namespace are gone since, and the ConfigMap still holds a pair of o1.
C29_Witness ==
    /\ \E t \in Threads : CancelledDelete(t, "o1")
    /\ "o1" \notin pods
    /\ objects["o1"] = [ status |-> "deleting", finalizer |-> TRUE ]
    /\ inConfigMapData(configMap.Data, Itoa(9), CanonicalValue(CustomObject("o1"),
                                                                CustomObject("o1").ProtocolPorts[1]))

\* The upsert reconcile of t has ended with the error of the Service handler:
\* the ConfigMap handler, the first of the two, had applied its change.
FailedAtService(t) ==
    th[t].pc = "done" /\ th[t].failed /\ ~th[t].deleted /\ th[t].res = 2

\* C30: if in one upsert reconcile the ConfigMap update succeeds and the
\* Service handler then fails, the ConfigMap keeps the entries just written:
\* no step of the Service handler and no step after the failure touches the
\* ConfigMap.  A later reconcile of the same object that starts from a
\* ConfigMap holding the pairs leaves the ConfigMap data as it was, and when it
\* has succeeded every desired port whose number the Service did not carry is
\* in the Service.
C30_NoRollback ==
    /\ [](\A t \in Threads :
            (FailedAtService(t) /\ ~th[t].extCM) =>
                /\ th[t].cmCalls >= 1
                /\ PairsPresent(th[t].obj))
    /\ [][\A t \in Threads :
            (StepOf(t) /\ ~th[t].deleted /\ (th[t].res = 2 \/ th[t].failed)) =>
                configMap' = configMap]_vars
    /\ [][\A t \in Threads :
            (StepOf(t) /\ ~th[t].deleted /\ th[t].obj \in Objs /\ PairsPresent(th[t].obj)) =>
                configMap'.Data = configMap.Data]_vars
    /\ [](\A t \in Threads :
            (UpsertSucceeded(t) /\ ~th[t].extSvc) =>
                \A d \in CanonicalPortsOf(t) :
                    WithNumber(PortsRead(t), d.Port) = {} => d \in PortSet(service.Ports))

\* An upsert reconcile of o1 has failed in the Service handler after its
\* ConfigMap update: the ConfigMap holds the pairs of o1, the Service lacks a
\* port of o1.
C30_Witness ==
    \E t \in Threads :
        /\ FailedAtService(t)
        /\ th[t].obj = "o1"
        /\ th[t].cmCalls >= 1
        /\ ~th[t].extCM
        /\ PairsPresent("o1")
        /\ ~PortsPresentByName("o1")

\* The resource version of the live resource the handler of t works on.
LiveResourceVersion(t) ==
    IF th[t].res = 1 THEN configMap.ResourceVersion ELSE service.ResourceVersion

\* The reconcile of t is about to send a change whose resource version is
\* not the live one any more.
StaleChange(t) ==
    /\ th[t].pc \in { "update", "delete" }
    /\ th[t].obj \in Objs
    /\ th[t].change # Nil
    /\ th[t].change[1].ResourceVersion # LiveResourceVersion(t)

(***************************************************************************)
(* C31, as claimed: when an update is rejected because its resource        *)
(* version is stale, the retried operation is based on a fresh read of the *)
(* resource: the object the retry sends carries the live resource version. *)
(***************************************************************************)
C31_Original ==
    [][\A t \in Threads :
        (StaleChange(t) /\ StepOf(t) /\ th'[t].pc = th[t].pc) =>
            th'[t].change[1].ResourceVersion = LiveResourceVersion(t)]_vars

\* C31, amended: when an update is rejected because its resource version is
\* stale, the retried operation sends the same object again and is rejected
\* again: the resource is not written and the reconcile ends in failure once
\* the retries are exhausted.  The change of a reconcile is based on the read
\* of that reconcile, so that with no writer since that read its first
\* attempt carries the live resource version.
C31_Amended ==
    /\ [][\A t \in Threads :
            (StaleChange(t) /\ StepOf(t)) =>
                /\ configMap' = configMap
                /\ service' = service
                /\ \/ /\ th'[t].pc = th[t].pc
                      /\ th'[t].change = th[t].change
                      /\ th'[t].attempts = th[t].attempts + 1
                   \/ /\ th'[t].pc = "done"
                      /\ th'[t].failed
                      /\ th[t].attempts + 1 >= ResourceRetries]_vars
    /\ [](\A t \in Threads :
            ( /\ th[t].pc \in { "update", "delete" }
              /\ th[t].obj \in Objs
              /\ th[t].change # Nil
              /\ IF th[t].res = 1 THEN ~th[t].extCM ELSE ~th[t].extSvc ) =>
                th[t].change[1].ResourceVersion = LiveResourceVersion(t))

\* A reconcile has ended in failure in the ConfigMap handler after another
\* party wrote the ConfigMap: every attempt of the update was made and the
\* change still carries the resource version that was read.
C31_Witness ==
    \E t \in Threads :
        /\ th[t].pc = "done"
        /\ th[t].failed
        /\ th[t].res = 1
        /\ th[t].extCM
        /\ th[t].cmCalls = ResourceRetries
        /\ th[t].change # Nil
        /\ th[t].change[1].ResourceVersion # configMap.ResourceVersion

(***************************************************************************)
(* Resyncs of a fixed set of live objects: the informer goes on delivering *)
(* an event for every object of the set, the callbacks run one after the   *)
(* other and nobody else writes to the ConfigMap or the Service.           *)
(***************************************************************************)
InitResync ==
    /\ \E d \in DataChoices : configMap = [ Data |-> d, ResourceVersion |-> 1 ]
    /\ \E ps \in PortChoices : service = [ Ports |-> ps, ResourceVersion |-> 1 ]
    /\ \E L \in (SUBSET AllObjs) \ { {} } :
          objects = [ o \in AllObjs |->
                        IF o \in L THEN [ status |-> "live", finalizer |-> TRUE ]
                        ELSE [ status |-> "gone", finalizer |-> FALSE ] ]
    /\ pods = {}
    /\ mutex = "free"
    /\ th = [ t \in Threads |-> IdleThread ]
    /\ lastOK = "none"
    /\ extWrites = 0
    /\ boot = [ crd |-> "present", pc |-> "returned", err |-> "none", informer |-> TRUE ]
    /\ unit = Nil

\* The resync delivers an event for the live object o.
EmitResync(t, o) ==
    /\ boot.informer
    /\ th[t].pc = "idle"
    /\ objects[o].status = "live"
    /\ th' = [ th EXCEPT ![t] = [ IdleThread EXCEPT !.pc = "lock", !.obj = o ] ]
    /\ UNCHANGED << configMap, service, objects, pods, mutex, lastOK, extWrites, boot, unit >>

\* The callback returns.  Resource versions are only compared for equality
\* and nobody holds one between two callbacks, so they are counted from 1
\* again: the resyncs can go on for ever in a finite state space.
UnlockResync(t) ==
    /\ th[t].pc = "done"
    /\ mutex' = "free"
    /\ lastOK' = "none"
    /\ th' = [ th EXCEPT ![t] = IdleThread ]
    /\ configMap' = [ configMap EXCEPT !.ResourceVersion = 1 ]
    /\ service' = [ service EXCEPT !.ResourceVersion = 1 ]
    /\ UNCHANGED << objects, pods, extWrites, boot, unit >>

NextResync ==
    \/ \E o \in AllObjs : EmitResync("t1", o)
    \/ Lock("t1")
    \/ EnsureFinalizer("t1")
    \/ GetCurrentState("t1")
    \/ GetDesiredState("t1")
    \/ NewPatch("t1")
    \/ ApplyCreateChange("t1")
    \/ ApplyChange("t1")
    \/ RemoveFinalizer("t1")
    \/ UnlockResync("t1")

SpecResync == InitResync /\ [][NextResync]_vars

\* The informer goes on delivering and a callback that has begun goes on.
SpecResyncLive == SpecResync /\ WF_vars(NextResync)

LiveObjs == { o \in AllObjs : objects[o].status = "live" }

\* An upsert reconcile of o has just succeeded.
ReconciledOK(o) == UpsertSucceeded("t1") /\ th["t1"].obj = o

\* Every live object is reconciled with success again and again.
RepeatedResync == \A o \in AllObjs : []<>(o \notin LiveObjs \/ ReconciledOK(o))

\* A reconcile of any live object would find nothing to change in the
\* ConfigMap data and the Service ports.
Converged == \A o \in LiveObjs : ReconcileUpsert(o, Live) = Live

\* No two live objects have an LB port in common.
DistinctLBPorts ==
    \A a, b \in LiveObjs :
        a # b => \A i \in 1..Len(CustomObject(a).ProtocolPorts),
                    j \in 1..Len(CustomObject(b).ProtocolPorts) :
                     CustomObject(a).ProtocolPorts[i].LBPort
                         # CustomObject(b).ProtocolPorts[j].LBPort

(***************************************************************************)
(* C32, as claimed: with any fixed set of live objects that target the     *)
(* same ConfigMap and Service and no external writer, repeated resync      *)
(* reconciles reach a state after which no reconcile changes the ConfigMap *)
(* data or the Service ports any more.                                     *)
(***************************************************************************)
C32_Original == RepeatedResync => <>[]Converged

\* C32, amended: with any fixed set of live objects that target the same
\* ConfigMap and Service and have no LB port in common, and no external
\* writer, repeated resync reconciles reach a state after which no reconcile
\* changes the ConfigMap data or the Service ports any more.
C32_Amended == (DistinctLBPorts /\ RepeatedResync) => <>[]Converged

\* Two objects without a common LB port are live, both have been reconciled
\* and the resources, written by both, have come to rest.
C32_Witness ==
    /\ LiveObjs = { "o1", "o2" }
    /\ Converged
    /\ ReconciledOK("o2")
    /\ PairsPresent("o1")
    /\ PortsPresentByName("o1")
    /\ configMap.ResourceVersion = 2
    /\ service.ResourceVersion = 2

\* The canonical pairs and ports of o that the ConfigMap and the Service hold.
EntriesOf(o, cm, svc) ==
    [ pairs |-> { i \in 1..Len(CustomObject(o).ProtocolPorts) :
                    inConfigMapData(cm.Data, Itoa(CustomObject(o).ProtocolPorts[i].LBPort),
                                    CanonicalValue(CustomObject(o),
                                                   CustomObject(o).ProtocolPorts[i])) },
      ports |-> { i \in 1..Len(CustomObject(o).ProtocolPorts) :
                    CanonicalPort(CustomObject(o), CustomObject(o).ProtocolPorts[i])
                        \in PortSet(svc.Ports) } ]

SpecConcurrentLive ==
    /\ SpecConcurrent
    /\ \A t \in Threads : WF_vars(Callback(t)) /\ SF_vars(Lock(t))

\* The callback u has been invoked with an event for o while the reconcile
\* of o by another callback is running.
ArrivedWhileRunning(u, o) ==
    /\ th[u].pc = "lock"
    /\ th[u].obj = o
    /\ \E t \in Threads \ { u } : Running(t) /\ th[t].obj = o

\* C34: an event for an object that arrives while a reconcile of that object
\* is running is not lost: after the running reconcile has completed, the
\* callback of the event begins its own reconcile of that object.
C34_EventNotLost ==
    \A u \in Threads :
        ArrivedWhileRunning(u, "o1") ~> (th[u].pc = "start" /\ th[u].obj = "o1")

\* An event for o1 waits for the mutex while the reconcile of o1 is applying
\* its update.
C34_Witness ==
    \E u \in Threads :
        /\ ArrivedWhileRunning(u, "o1")
        /\ \E t \in Threads \ { u } : th[t].pc = "update" /\ th[t].cmCalls = 0

(***************************************************************************)
(* The informer's event dispatch: the events of the watched objects are    *)
(* queued as they are emitted and handed to the callbacks one at a time.   *)
(***************************************************************************)
MaxEvents == 3

InitDispatch ==
    /\ \E d \in DataChoices : configMap = [ Data |-> d, ResourceVersion |-> 1 ]
    /\ \E ps \in PortChoices : service = [ Ports |-> ps, ResourceVersion |-> 1 ]
    /\ \E L \in (SUBSET Objs) \ { {} } :
          objects = [ o \in Objs |->
                        IF o \in L THEN [ status |-> "live", finalizer |-> TRUE ]
                        ELSE [ status |-> "gone", finalizer |-> FALSE ] ]
    /\ pods = {}
    /\ mutex = "free"
    /\ th = [ t \in Threads |-> IdleThread ]
    /\ lastOK = "none"
    /\ extWrites = 0
    /\ boot = [ crd |-> "present", pc |-> "returned", err |-> "none", informer |-> TRUE ]
    /\ unit = [ kind |-> "informer", queue |-> << >>, emitted |-> 0, held |-> Nil ]

\* The informer emits an event for o: it is numbered and queued with the
\* object as it is cached now.
Notify(o) ==
    /\ boot.informer
    /\ unit.emitted < MaxEvents
    /\ objects[o].status # "gone"
    /\ unit' = [ unit EXCEPT
                   !.emitted = @ + 1,
                   !.queue = Append(@, [ n |-> unit.emitted + 1, obj |-> o,
                                         deleted |-> (objects[o].status = "deleting") ]) ]
    /\ UNCHANGED << configMap, service, objects, pods, mutex, th, lastOK, extWrites, boot >>

\* Variant: the event emitted last is delivered first.
QueueNext_last(q) == Len(q)

\* The queued event that is delivered next: the oldest.
QueueNext(q) == 1

\* The dispatching goroutine, back from the callback before, takes the next
\* event off the queue and invokes addFunc or deleteFunc with it.
Dispatch(t) ==
    /\ th[t].pc = "idle"
    /\ unit.queue # << >>
    /\ LET i == QueueNext(unit.queue)
           e == unit.queue[i]
       IN /\ th' = [ th EXCEPT ![t] =
                       [ IdleThread EXCEPT !.pc = "lock", !.obj = e.obj,
                                           !.deleted = e.deleted ] ]
          /\ unit' = [ unit EXCEPT
                         !.held = Some(e),
                         !.queue = [ j \in 1..(Len(@) - 1) |->
                                       IF j < i THEN @[j] ELSE @[j + 1] ] ]
    /\ UNCHANGED << configMap, service, objects, pods, mutex, lastOK, extWrites, boot >>

NextDispatch ==
    \/ \E o \in Objs : Notify(o)
    \/ UserDelete
    \/ Dispatch("t1")
    \/ Lock("t1")
    \/ EnsureFinalizer("t1")
    \/ GetCurrentState("t1")
    \/ GetDesiredState("t1")
    \/ NewPatch("t1")
    \/ ApplyCreateChange("t1")
    \/ ApplyChange("t1")
    \/ RemoveFinalizer("t1")
    \/ Unlock("t1")

SpecDispatch == InitDispatch /\ [][NextDispatch]_vars

\* The callback t begins the reconcile of the event it was invoked with.
BeginsReconcile(t) == th[t].pc = "lock" /\ th'[t].pc = "start"

\* C35: the reconciles of an object run in the order in which the informer
\* emitted the events: when a reconcile of an object begins, every event of
\* that object still waiting to be delivered was emitted after the event of
\* the reconcile.
C35_EmissionOrder ==
    [][\A t \in Threads :
          BeginsReconcile(t) =>
              \A i \in 1..Len(unit.queue) :
                  unit.queue[i].obj = th[t].obj => unit.queue[i].n > unit.held[1].n]_vars

\* The reconcile of the second event runs for o1 while the third event, of
\* o1 too, waits in the queue.
C35_Witness ==
    /\ unit.kind = "informer"
    /\ unit.held # Nil
    /\ unit.held[1].n = 2
    /\ th["t1"].obj = "o1"
    /\ th["t1"].pc = "update"
    /\ Len(unit.queue) = 1
    /\ unit.queue[1].obj = "o1"
    /\ unit.queue[1].n = 3

(***************************************************************************)
(* The context handed to the handler operations, and its cancellation.     *)
(***************************************************************************)
InitCancel ==
    /\ \E d \in DataChoices : configMap = [ Data |-> d, ResourceVersion |-> 1 ]
    /\ \E ps \in PortChoices : service = [ Ports |-> ps, ResourceVersion |-> 1 ]
    /\ objects = [ o \in Objs |-> IF o = "o1"
                                  THEN [ status |-> "live", finalizer |-> TRUE ]
                                  ELSE [ status |-> "gone", finalizer |-> FALSE ] ]
    /\ pods = {}
    /\ mutex = "free"
    /\ th = [ t \in Threads |-> IdleThread ]
    /\ lastOK = "none"
    /\ extWrites = 0
    /\ boot = [ crd |-> "present", pc |-> "returned", err |-> "none", informer |-> TRUE ]
    /\ unit = [ kind |-> "context", done |-> FALSE ]

\* The context is cancelled.
CancelContext ==
    /\ ~unit.done
    /\ unit' = [ unit EXCEPT !.done = TRUE ]
    /\ UNCHANGED << configMap, service, objects, pods, mutex, th, lastOK, extWrites, boot >>

\* Variant: the retry loop does not look at the context.
ContextErr_ignored(ctx) == FALSE

\* ctx.Err() is non-nil once the context is cancelled.
ContextErr(ctx) == ctx.done

\* A callback stands in a handler operation of the retry wrapper.
InOperation(t) ==
    th[t].pc \in { "current", "desired", "patch", "create", "update", "delete" }

\* The retry loop of the wrapper makes an attempt of the operation in turn
\* as long as the context is not cancelled.
Attempt(t) ==
    /\ ~ContextErr(unit)
    /\ \/ GetCurrentState(t)
       \/ GetDesiredState(t)
       \/ NewPatch(t)
       \/ ApplyCreateChange(t)
       \/ ApplyChange(t)

\* The retry loop finds the context cancelled: it ends with the cancellation
\* error, which ends the reconcile.
RetryCanceled(t) ==
    /\ unit.done
    /\ InOperation(t)
    /\ th' = [ th EXCEPT ![t].pc = "done", ![t].failed = TRUE, ![t].err = "canceled" ]
    /\ UNCHANGED << configMap, service, objects, pods, mutex, lastOK, extWrites, boot, unit >>

NextCancel ==
    \/ CancelContext
    \/ UserDelete
    \/ Emit("t1")
    \/ Lock("t1")
    \/ EnsureFinalizer("t1")
    \/ Attempt("t1")
    \/ RetryCanceled("t1")
    \/ RemoveFinalizer("t1")
    \/ Unlock("t1")

SpecCancel == InitCancel /\ [][NextCancel]_vars

\* C36: when the context is cancelled while a handler operation is in its
\* retry loop, the loop stops without a further attempt (no further call of
\* the API), the cancellation error is returned and ends the reconcile, and
\* no write reaches the ConfigMap or the Service after the cancellation.
C36_CancelStopsRetries ==
    [][unit.done =>
          /\ configMap' = configMap
          /\ service' = service
          /\ \A t \in Threads :
                InOperation(t) /\ th'[t] # th[t] =>
                    /\ th'[t].pc = "done"
                    /\ th'[t].failed
                    /\ th'[t].err = "canceled"
                    /\ th'[t].attempts = th[t].attempts
                    /\ th'[t].cmCalls = th[t].cmCalls
                    /\ th'[t].svcCalls = th[t].svcCalls]_vars

\* The update of the ConfigMap failed once, the context was cancelled before
\* the second attempt, and the reconcile has ended with the cancellation
\* error after that one call.
C36_Witness ==
    /\ unit.kind = "context"
    /\ unit.done
    /\ th["t1"].pc = "done"
    /\ th["t1"].err = "canceled"
    /\ th["t1"].res = 1
    /\ th["t1"].attempts = 1
    /\ th["t1"].cmCalls = 1

\* The live resource the handler in turn of t works on.
LiveResource(t) == IF th[t].res = 1 THEN configMap ELSE service

\* The object differs from the fetched one in nothing but the Data map
\* (ConfigMap, res = 1) or the port list (Service, res = 2).
OnlyPayloadModified(res, object, fetched) ==
    IF res = 1
    THEN [ object EXCEPT !.Data = fetched.Data ] = fetched
    ELSE [ object EXCEPT !.Ports = fetched.Ports ] = fetched

\* C37: every update a handler sends is the object returned by that
\* reconcile's Get of the resource with only the Data map (ConfigMap) or the
\* port list (Service) modified; the other fields, the resource version among
\* them, are those of the fetched object.  GetCurrentState hands over the
\* object as the API server holds it, the desired-state step leaves it alone,
\* the diff modifies nothing but the payload, the change is kept as it is up
\* to the apply step, and what reaches the API server is the payload of that
\* change.
C37_UpdateIsFetchedObject ==
    [][\A t \in Threads :
          /\ (th[t].pc = "current" /\ th'[t].pc = "desired")
                => th'[t].cur = Some(LiveResource(t))
          /\ th[t].pc = "desired" => th'[t].cur = th[t].cur
          /\ (th[t].pc = "patch" /\ th'[t].change # Nil)
                => OnlyPayloadModified(th[t].res, th'[t].change[1], th[t].cur[1])
          /\ (th[t].pc \in { "create", "update", "delete" }
                /\ th'[t].pc \in { "create", "update", "delete" })
                => th'[t].change = th[t].change
          /\ (StepOf(t) /\ configMap' # configMap)
                => /\ th[t].res = 1
                   /\ th[t].change[1].ResourceVersion = configMap.ResourceVersion
                   /\ configMap'.Data = th[t].change[1].Data
          /\ (StepOf(t) /\ service' # service)
                => /\ th[t].res = 2
                   /\ th[t].change[1].ResourceVersion = service.ResourceVersion
                   /\ service'.Ports = th[t].change[1].Ports]_vars

\* The deletion reconcile of o1 is about to send the fetched Service without
\* o1's first port, under the resource version of its Get, which another
\* writer has outdated meanwhile.
C37_Witness ==
    /\ th["t1"].pc = "delete"
    /\ th["t1"].obj = "o1"
    /\ th["t1"].res = 2
    /\ th["t1"].change # Nil
    /\ th["t1"].read # Nil
    /\ th["t1"].change[1].ResourceVersion = th["t1"].read[1].ResourceVersion
    /\ Len(th["t1"].change[1].Ports) < Len(th["t1"].read[1].Ports)
    /\ service.ResourceVersion > th["t1"].change[1].ResourceVersion

(***************************************************************************)
(* The Data map of the fetched ConfigMap, which may be nil.  A nil Go map  *)
(* can be read and ranged over; an assignment to it panics.                *)
(***************************************************************************)
\* ConfigMaps as Get returns them: Data is Nil (no data at all) or a map.
FetchedConfigMaps ==
    { [ Data |-> d, ResourceVersion |-> 1 ] :
        d \in { Nil } \cup { Some(m) : m \in UnitDataChoices } }

\* Variant: the fetched ConfigMap is handed on as it is.
configmap_ensureAssignable_asFetched(k8sConfigMap) == k8sConfigMap

\* if k8sConfigMap.Data == nil { k8sConfigMap.Data = map[string]string{} }
configmap_ensureAssignable(k8sConfigMap) ==
    IF k8sConfigMap.Data = Nil
    THEN [ k8sConfigMap EXCEPT !.Data = Some(EmptyMap) ]
    ELSE k8sConfigMap

\* The pairs a Go map holds when read: none for a nil map.
GoMapRead(data) == IF data = Nil THEN EmptyMap ELSE data[1]

\* The loop of newUpdateChange on a ConfigMap whose Data may be nil: the
\* lookups work on a nil map, the first assignment to it panics.
configmap_newUpdateChange_go(currentConfigMap, dState) ==
    LET data == GoMapRead(currentConfigMap.Data)
        toSet == { k \in DOMAIN dState : ~inConfigMapData(data, k, dState[k]) }
    IN IF currentConfigMap.Data = Nil /\ toSet # {}
       THEN [ panic |-> TRUE, change |-> Nil ]
       ELSE [ panic |-> FALSE,
              change |-> Some([ currentConfigMap EXCEPT !.Data =
                  IF currentConfigMap.Data = Nil THEN Nil
                  ELSE Some(configmap_newUpdateChange(
                                [ currentConfigMap EXCEPT !.Data = data ], dState).Data) ]) ]

InitFetch ==
    /\ configMap = [ Data |-> EmptyMap, ResourceVersion |-> 1 ]
    /\ service = [ Ports |-> << >>, ResourceVersion |-> 1 ]
    /\ objects = [ o \in Objs |-> [ status |-> "gone", finalizer |-> FALSE ] ]
    /\ pods = {}
    /\ mutex = "free"
    /\ th = [ t \in Threads |-> IdleThread ]
    /\ lastOK = "none"
    /\ extWrites = 0
    /\ boot = [ crd |-> "present", pc |-> "new", err |-> "none", informer |-> FALSE ]
    /\ \E o \in Objs, k8sConfigMap \in FetchedConfigMaps :
          unit = [ kind |-> "fetch", obj |-> o, fetched |-> k8sConfigMap, pc |-> "get",
                   current |-> Nil, desired |-> Nil, change |-> Nil, panic |-> FALSE ]

\* GetCurrentState after the Get has returned the ConfigMap.
FetchGetCurrentState ==
    /\ unit.pc = "get"
    /\ unit' = [ unit EXCEPT !.pc = "current",
                             !.current = Some(configmap_ensureAssignable(unit.fetched)) ]
    /\ UnitUnchanged

\* GetDesiredState of the ConfigMap handler.
FetchGetDesiredState ==
    /\ unit.pc = "current"
    /\ unit' = [ unit EXCEPT !.pc = "desired",
                             !.desired = Some(configmap_GetDesiredState(CustomObject(unit.obj))) ]
    /\ UnitUnchanged

\* The diff step: newUpdateChange on the current and the desired state.
FetchNewUpdateChange ==
    /\ unit.pc = "desired"
    /\ LET r == configmap_newUpdateChange_go(unit.current[1], unit.desired[1])
       IN unit' = [ unit EXCEPT !.pc = "diffed", !.change = r.change, !.panic = r.panic ]
    /\ UnitUnchanged

NextFetch == FetchGetCurrentState \/ FetchGetDesiredState \/ FetchNewUpdateChange

SpecFetch == InitFetch /\ [][NextFetch]_vars

\* C38: the current ConfigMap state handed to the diff step always has a
\* usable Data map: a fetched ConfigMap without data is handed on with an
\* empty map, one with data with that data, and the diff step, which adds the
\* desired pairs to that map, never fails: it ends with a change that holds
\* every desired pair.
C38_UsableData ==
    /\ unit.current # Nil =>
          /\ unit.current[1].Data # Nil
          /\ unit.current[1].Data[1] = GoMapRead(unit.fetched.Data)
          /\ unit.current[1].ResourceVersion = unit.fetched.ResourceVersion
    /\ unit.pc = "diffed" =>
          /\ ~unit.panic
          /\ unit.change # Nil
          /\ \A k \in DOMAIN unit.desired[1] :
                inConfigMapData(unit.change[1].Data[1], k, unit.desired[1][k])

\* The ConfigMap was fetched without data and the diff step has put the two
\* pairs of o1 into the map.
C38_Witness ==
    /\ unit.kind = "fetch"
    /\ unit.fetched.Data = Nil
    /\ unit.obj = "o1"
    /\ unit.pc = "diffed"
    /\ unit.change # Nil
    /\ DOMAIN unit.change[1].Data[1] = { Itoa(9), Itoa(10) }

\* ProcessCreate of the first operator has returned without error.
OperatorCreated ==
    /\ unit # Nil
    /\ unit.kind = "operator"
    /\ unit.pc = "done"
    /\ unit.event = "create"
    /\ unit.err = "none"

\* C39: in the create flow, which runs the create step and then the delete
\* step against the same current and desired state (ProcessCreate), every
\* desired ConfigMap pair and Service port of the object is in the target
\* resources when the flow returns successfully.
C39_CreateFlowHoldsDesired ==
    OperatorCreated =>
        LET dState == operator_GetDesiredState(CustomObject(unit.obj))
        IN /\ \A k \in DOMAIN dState.ConfigMapData :
                 inConfigMapData(configMap.Data, k, dState.ConfigMapData[k])
           /\ \A i \in 1..Len(dState.ServicePorts) :
                 inServicePorts(service.Ports, dState.ServicePorts[i])

====
